---- MODULE Spec2Model ----
(***************************************************************************)
(* Model of src/handler.py: the RunPod job handler that gates a job on a   *)
(* resource snapshot, validates it, builds and submits a ComfyUI prompt,   *)
(* polls the history endpoint, harvests the artifacts and assembles the    *)
(* response.                                                               *)
(*                                                                         *)
(* Conventions                                                             *)
(*   - Python None is <<>>, a known value v is <<v>>.                      *)
(*   - A Python dict is a function whose DOMAIN is its key set.            *)
(*   - A Python str is a sequence of string fragments; "a in s" for the    *)
(*     fragments of interest is membership among the fragments.            *)
(*   - A float number of GB is held as its numerator over 2^30 (bytes), so *)
(*     0.5 GB is 536870912 and kB / (1024 * 1024) is kB * 1024.            *)
(***************************************************************************)
EXTENDS Integers, Sequences, FiniteSets, TLC

(* ------------------------------ bounds -------------------------------- *)
\* largest value of the poll loop's retries counter that is explored
MaxRetries == 2
\* longest status.messages list of a history record
MaxMessages == 2
\* longest list of image descriptors reported by a history record
MaxOutputs == 2

(* --------------------------- program constants ------------------------ *)
DISK_MIN_FREE_BYTES == 524288000
\* 0.5 GB, the pre-flight memory threshold
MEM_MIN_AVAILABLE_GB == 536870912
\* 1.0 GB, the post-job refresh threshold
MEM_REFRESH_GB == 1073741824

(* ------------------------------ helpers ------------------------------- *)
None == <<>>
Some(v) == <<v>>
Range(s) == {s[i] : i \in DOMAIN s}
EmptyDict == [x \in {} |-> x]
Put(d, k, v) == [x \in (DOMAIN d) \cup {k} |-> IF x = k THEN v ELSE d[x]]
\* dict.get(k): None when the key is absent
Get(d, k) == IF k \in DOMAIN d THEN Some(d[k]) ELSE None
\* "frag in text"
Contains(text, frag) == frag \in Range(text)
\* '\n'.join(list of str)
RECURSIVE JoinLines(_)
JoinLines(l) ==
    IF l = <<>> THEN <<>>
    ELSE IF Len(l) = 1 THEN l[1]
    ELSE l[1] \o <<"\n">> \o JoinLines(Tail(l))

(* kB -> GB and bytes -> GB, on the numerator over 2^30 *)
KbToGb(kb) == kb * 1024
BytesToGb(b) == b

(* ------------------ accounting files (the environment) ---------------- *)
\* st: "missing" (open raises FileNotFoundError), "bad" (open or int()
\* raises another exception), "max" (cgroup v2 unlimited), "huge" (cgroup v1
\* value >= 2^63), "ok" (v is the number read)
File(st, v) == [st |-> st, v |-> v]
Missing == File("missing", 0)
Bad == File("bad", 0)

\* /proc/meminfo: None when unreadable, else lines [key, val]; val = None is a
\* line whose number does not parse
MemLine(k, v) == [key |-> k, val |-> v]
MeminfoFiles ==
    {None}
    \cup {Some(<<MemLine("MemTotal:", Some(1572864)),
                 MemLine("MemFree:", Some(262144)),
                 MemLine("MemAvailable:", Some(a))>>) :
            a \in {524287, 524288, 1048576}}
    \cup {Some(<<MemLine("MemTotal:", Some(1572864)),
                 MemLine("MemFree:", None),
                 MemLine("MemAvailable:", Some(1048576))>>)}

LimitFilesV2 == {Missing, Bad, File("max", 0), File("ok", 1610612736)}
LimitFilesV1 == {Missing, File("huge", 0), File("ok", 1610612736)}
UsageFiles == {Missing, Bad, File("ok", 536870912), File("ok", 1073741825)}
UsageFilesV1 == {Missing, File("ok", 1073741824)}

MemEnvs ==
    [meminfo : MeminfoFiles,
     v2max : LimitFilesV2, v2cur : UsageFiles,
     v1limit : LimitFilesV1, v1usage : UsageFilesV1,
     v1blimit : LimitFilesV1, v1busage : UsageFilesV1]

(* ----------------------- get_container_memory_info -------------------- *)
MeminfoKey(k) ==
    IF k = "MemTotal:" THEN "total"
    ELSE IF k = "MemAvailable:" THEN "available" ELSE "free"

\* the for loop over the lines of /proc/meminfo; ok = FALSE when int() raised
RECURSIVE MeminfoLoop(_, _, _)
MeminfoLoop(lines, i, d) ==
    IF i > Len(lines) THEN [d |-> d, ok |-> TRUE]
    ELSE IF lines[i].val = None THEN [d |-> d, ok |-> FALSE]
    ELSE MeminfoLoop(lines, i + 1,
                     Put(d, MeminfoKey(lines[i].key), KbToGb(lines[i].val[1])))

\* lines 318-334: host figures, the inner except keeps what was stored
HostMemory(meminfo) ==
    IF meminfo = None THEN EmptyDict
    ELSE LET r == MeminfoLoop(meminfo[1], 1, EmptyDict)
         IN IF r.ok /\ "total" \in DOMAIN r.d /\ "free" \in DOMAIN r.d
            THEN Put(r.d, "used", r.d["total"] - r.d["free"])
            ELSE r.d

\* one "limit file then usage file" block.  Result: [d, out] with out =
\* "done", "fnf" (FileNotFoundError: try the next location) or "raise"
\* (another exception leaves the block and reaches the outer except).
CgroupBlock(d, limit, usage) ==
    IF limit.st = "missing" THEN [d |-> d, out |-> "fnf"]
    ELSE IF limit.st = "bad" THEN [d |-> d, out |-> "raise"]
    ELSE LET d1 == IF limit.st = "ok"
                   THEN Put(d, "limit", BytesToGb(limit.v)) ELSE d
         IN IF usage.st = "missing" THEN [d |-> d1, out |-> "fnf"]
            ELSE IF usage.st = "ok"
                 THEN [d |-> Put(d1, "used", BytesToGb(usage.v)), out |-> "done"]
                 ELSE [d |-> d1, out |-> "raise"]

get_container_memory_info(env) ==
    LET host == HostMemory(env.meminfo)
        b2 == CgroupBlock(host, env.v2max, env.v2cur)
        b1 == IF b2.out = "fnf"
              THEN CgroupBlock(b2.d, env.v1limit, env.v1usage) ELSE b2
        b1b == IF b2.out = "fnf" /\ b1.out = "fnf"
               THEN CgroupBlock(b1.d, env.v1blimit, env.v1busage) ELSE b1
        m == b1b.d
    IN IF b1b.out = "raise" THEN EmptyDict
       ELSE IF "limit" \in DOMAIN m /\ "used" \in DOMAIN m
            THEN Put(m, "available", m["limit"] - m["used"])
            ELSE m

\* every value memory_info.get('available') can take over the environments
MemoryAvailables == {Get(get_container_memory_info(e), "available") : e \in MemEnvs}

\* the environments explored for the snapshot taken after a job: nothing
\* readable, host figures only, cgroup v2 accounting, an unparsable cgroup
\* file
MemEnv(meminfo, v2max, v2cur) ==
    [meminfo |-> meminfo, v2max |-> v2max, v2cur |-> v2cur,
     v1limit |-> Missing, v1usage |-> Missing,
     v1blimit |-> Missing, v1busage |-> Missing]
HostOnly(a) ==
    Some(<<MemLine("MemTotal:", Some(1572864)), MemLine("MemFree:", Some(262144)),
           MemLine("MemAvailable:", Some(a))>>)
PostJobMemEnvs ==
    {MemEnv(None, Missing, Missing),
     MemEnv(HostOnly(524288), Missing, Missing),
     MemEnv(HostOnly(1048576), Missing, Missing),
     MemEnv(HostOnly(1048576), File("ok", 1610612736), File("ok", 1073741825)),
     MemEnv(HostOnly(524288), File("ok", 1610612736), File("ok", 536870912)),
     MemEnv(HostOnly(524288), Bad, Missing)}

(* ------------------------ get_container_disk_info --------------------- *)
\* usage: None when shutil.disk_usage raises, else [total, free];
\* iostat, blkio, blkiob: the cgroup I/O files; an exception other than
\* FileNotFoundError while reading them reaches the outer except.
DiskEnvs ==
    [usage : {None, Some([total |-> 0, free |-> 0]),
              Some([total |-> 1073741824, free |-> 524287999]),
              Some([total |-> 1073741824, free |-> 524288000])},
     iostat : {Missing, Bad, File("ok", 0)},
     blkio : {Missing, Bad, File("ok", 0)},
     blkiob : {Missing, File("ok", 0)}]

get_container_disk_info(env) ==
    LET d0 == IF env.usage = None THEN EmptyDict
              ELSE LET u == env.usage[1]
                       d == Put(Put(Put(EmptyDict, "total_bytes", u.total),
                                    "used_bytes", u.total - u.free),
                                "free_bytes", u.free)
                   \* (used / total) * 100 raises ZeroDivisionError when
                   \* total = 0; the three byte counts are already stored
                   IN IF u.total = 0 THEN d
                      ELSE Put(d, "usage_percent",
                               (u.total - u.free) \div (u.total \div 100))
        raised == \/ env.iostat.st = "bad"
                  \/ env.iostat.st = "missing" /\ env.blkio.st = "bad"
    IN IF raised THEN EmptyDict ELSE d0

DiskFrees == {Get(get_container_disk_info(e), "free_bytes") : e \in DiskEnvs}

(* ------------------------------ payloads ------------------------------ *)
\* a payload (dict of nodes in insertion order): order is the key order,
\* nodes maps a key to [class_type, inputs]; inputs = None is a node
\* without an 'inputs' entry.
Node(ct, inputs) == [class_type |-> ct, inputs |-> inputs]
Payload(order, nodes) == [order |-> order, nodes |-> nodes]

TEXT_OUTPUT_CLASSES == {"SaveText|pysssss", "SaveText", "TextFileOutput", "WriteTextFile"}

\* str(uuid.uuid4()) for the n-th draw of the process: distinct draws give
\* distinct tokens, and a token holds no underscore
Uuid(n) == "uuid" \o ToString(n)

\* variant of InjectNode: on a text-output node 'file' is tried before
\* 'filename_prefix'
InjectNode_FileFirst(node, n) ==
    IF node.class_type = "SaveImage"
    THEN IF node.inputs = None
         THEN [node |-> node, n |-> n, ok |-> FALSE]
         ELSE [node |-> Node(node.class_type,
                             Some(Put(node.inputs[1], "filename_prefix", <<Uuid(n + 1)>>))),
               n |-> n + 1, ok |-> TRUE]
    ELSE IF node.class_type \in TEXT_OUTPUT_CLASSES
    THEN IF node.inputs = None
         THEN [node |-> node, n |-> n, ok |-> FALSE]
         ELSE LET inp == node.inputs[1]
              IN IF "file" \in DOMAIN inp
                 THEN [node |-> Node(node.class_type,
                                     Some(Put(inp, "file", <<Uuid(n + 1), "_">> \o inp["file"]))),
                       n |-> n + 1, ok |-> TRUE]
                 ELSE IF "filename_prefix" \in DOMAIN inp
                 THEN [node |-> Node(node.class_type,
                                     Some(Put(inp, "filename_prefix", <<Uuid(n + 1)>>))),
                       n |-> n + 1, ok |-> TRUE]
                 ELSE IF "filename" \in DOMAIN inp
                 THEN [node |-> Node(node.class_type,
                                     Some(Put(inp, "filename", <<Uuid(n + 1), "_">> \o inp["filename"]))),
                       n |-> n + 1, ok |-> TRUE]
                 ELSE [node |-> node, n |-> n, ok |-> TRUE]
    ELSE [node |-> node, n |-> n, ok |-> TRUE]

\* the body of the for loop of create_unique_filename_prefix for one node;
\* n is the number of uuids drawn so far
InjectNode(node, n) ==
    IF node.class_type = "SaveImage"
    THEN IF node.inputs = None
         THEN [node |-> node, n |-> n, ok |-> FALSE]      \* KeyError 'inputs'
         ELSE [node |-> Node(node.class_type,
                             Some(Put(node.inputs[1], "filename_prefix", <<Uuid(n + 1)>>))),
               n |-> n + 1, ok |-> TRUE]
    ELSE IF node.class_type \in TEXT_OUTPUT_CLASSES
    THEN IF node.inputs = None
         THEN [node |-> node, n |-> n, ok |-> FALSE]
         ELSE LET inp == node.inputs[1]
              IN IF "filename_prefix" \in DOMAIN inp
                 THEN [node |-> Node(node.class_type,
                                     Some(Put(inp, "filename_prefix", <<Uuid(n + 1)>>))),
                       n |-> n + 1, ok |-> TRUE]
                 ELSE IF "file" \in DOMAIN inp
                 THEN [node |-> Node(node.class_type,
                                     Some(Put(inp, "file", <<Uuid(n + 1), "_">> \o inp["file"]))),
                       n |-> n + 1, ok |-> TRUE]
                 ELSE IF "filename" \in DOMAIN inp
                 THEN [node |-> Node(node.class_type,
                                     Some(Put(inp, "filename", <<Uuid(n + 1), "_">> \o inp["filename"]))),
                       n |-> n + 1, ok |-> TRUE]
                 ELSE [node |-> node, n |-> n, ok |-> TRUE]
    ELSE [node |-> node, n |-> n, ok |-> TRUE]

\* create_unique_filename_prefix(payload), from position i of the key order;
\* ok = FALSE when a node raised (the nodes before it stay rewritten)
RECURSIVE InjectFrom(_, _, _)
InjectFrom(p, i, n) ==
    IF i > Len(p.order) THEN [payload |-> p, n |-> n, ok |-> TRUE]
    ELSE LET k == p.order[i]
             r == InjectNode(p.nodes[k], n)
             p1 == Payload(p.order, [p.nodes EXCEPT ![k] = r.node])
         IN IF r.ok THEN InjectFrom(p1, i + 1, r.n)
            ELSE [payload |-> p1, n |-> r.n, ok |-> FALSE]

create_unique_filename_prefix(p, n) == InjectFrom(p, 1, n)

(* job parameters after validation (template workflows) *)
Params ==
    [seed |-> <<"p_seed">>, steps |-> <<"p_steps">>, cfg_scale |-> <<"p_cfg">>,
     sampler_name |-> <<"p_sampler">>, scheduler |-> <<"p_scheduler">>,
     denoise |-> <<"p_denoise">>, ckpt_name |-> <<"p_ckpt">>,
     batch_size |-> <<"p_batch">>, width |-> <<"p_width">>,
     height |-> <<"p_height">>, prompt |-> <<"p_prompt">>,
     negative_prompt |-> <<"p_negative">>]

SetSlot(wf, k, slot, v) ==
    Payload(wf.order,
            [wf.nodes EXCEPT ![k] = Node(@.class_type, Some(Put(@.inputs[1], slot, v)))])

get_txt2img_payload(workflow, payload) ==
    LET w1 == SetSlot(workflow, "3", "seed", payload.seed)
        w2 == SetSlot(w1, "3", "steps", payload.steps)
        w3 == SetSlot(w2, "3", "cfg", payload.cfg_scale)
        w4 == SetSlot(w3, "3", "sampler_name", payload.sampler_name)
        w5 == SetSlot(w4, "4", "ckpt_name", payload.ckpt_name)
        w6 == SetSlot(w5, "5", "batch_size", payload.batch_size)
        w7 == SetSlot(w6, "5", "width", payload.width)
        w8 == SetSlot(w7, "5", "height", payload.height)
        w9 == SetSlot(w8, "6", "text", payload.prompt)
    IN SetSlot(w9, "7", "text", payload.negative_prompt)

\* the assignments of get_txt2img_payload and of get_img2img_payload as
\* <<node, slot, job parameter>>
Txt2imgSlots ==
    {<<"3", "seed", "seed">>, <<"3", "steps", "steps">>, <<"3", "cfg", "cfg_scale">>,
     <<"3", "sampler_name", "sampler_name">>, <<"4", "ckpt_name", "ckpt_name">>,
     <<"5", "batch_size", "batch_size">>, <<"5", "width", "width">>,
     <<"5", "height", "height">>, <<"6", "text", "prompt">>,
     <<"7", "text", "negative_prompt">>}
Img2imgSlots ==
    {<<"13", "seed", "seed">>, <<"13", "steps", "steps">>, <<"13", "cfg", "cfg_scale">>,
     <<"13", "sampler_name", "sampler_name">>, <<"13", "scheduler", "scheduler">>,
     <<"13", "denoise", "denoise">>, <<"1", "ckpt_name", "ckpt_name">>,
     <<"2", "width", "width">>, <<"2", "height", "height">>,
     <<"2", "target_width", "width">>, <<"2", "target_height", "height">>,
     <<"4", "width", "width">>, <<"4", "height", "height">>,
     <<"4", "target_width", "width">>, <<"4", "target_height", "height">>,
     <<"6", "text", "prompt">>, <<"7", "text", "negative_prompt">>}

\* get_workflow_payload after the template file was read and parsed: only
\* txt2img is substituted, every other template is returned as loaded
get_workflow_payload(workflow_name, template, payload) ==
    IF workflow_name = "txt2img" THEN get_txt2img_payload(template, payload)
    ELSE template

(* --------------------- workflow templates on disk ---------------------- *)
Txt2imgTemplate ==
    Payload(<<"3", "4", "5", "6", "7", "9">>,
            [k \in {"3", "4", "5", "6", "7", "9"} |->
                CASE k = "3" -> Node("KSampler",
                                     Some([seed |-> <<"t">>, steps |-> <<"t">>, cfg |-> <<"t">>,
                                           sampler_name |-> <<"t">>, scheduler |-> <<"t">>]))
                  [] k = "4" -> Node("CheckpointLoaderSimple", Some([ckpt_name |-> <<"t">>]))
                  [] k = "5" -> Node("EmptyLatentImage",
                                     Some([batch_size |-> <<"t">>, width |-> <<"t">>, height |-> <<"t">>]))
                  [] k = "6" -> Node("CLIPTextEncode", Some([text |-> <<"t">>]))
                  [] k = "7" -> Node("CLIPTextEncode", Some([text |-> <<"t">>]))
                  [] k = "9" -> Node("SaveImage", Some([filename_prefix |-> <<"ComfyUI">>]))])

Img2imgTemplate ==
    Payload(<<"1", "2", "4", "6", "7", "13", "9">>,
            [k \in {"1", "2", "4", "6", "7", "13", "9"} |->
                CASE k = "1" -> Node("CheckpointLoaderSimple", Some([ckpt_name |-> <<"t">>]))
                  [] k = "2" -> Node("CLIPTextEncodeSDXL",
                                     Some([width |-> <<"t">>, height |-> <<"t">>,
                                           target_width |-> <<"t">>, target_height |-> <<"t">>]))
                  [] k = "4" -> Node("CLIPTextEncodeSDXL",
                                     Some([width |-> <<"t">>, height |-> <<"t">>,
                                           target_width |-> <<"t">>, target_height |-> <<"t">>]))
                  [] k = "6" -> Node("CLIPTextEncode", Some([text |-> <<"t">>]))
                  [] k = "7" -> Node("CLIPTextEncode", Some([text |-> <<"t">>]))
                  [] k = "13" -> Node("KSampler",
                                      Some([seed |-> <<"t">>, steps |-> <<"t">>, cfg |-> <<"t">>,
                                            sampler_name |-> <<"t">>, scheduler |-> <<"t">>,
                                            denoise |-> <<"t">>]))
                  [] k = "9" -> Node("SaveImage", Some([filename_prefix |-> <<"ComfyUI">>]))])

\* json.load of /workflows/<workflow_name>.json when the file is readable
TemplateFile(workflow_name) ==
    IF workflow_name = "txt2img" THEN Txt2imgTemplate ELSE Img2imgTemplate

(* ------------------------- caller-supplied payloads -------------------- *)
CustomTextAndImage ==
    Payload(<<"1", "2", "3">>,
            [k \in {"1", "2", "3"} |->
                IF k = "1"
                THEN Node("SaveText|pysssss",
                          Some([file |-> <<"out", ".txt">>, text |-> <<"hello">>]))
                ELSE IF k = "2"
                THEN Node("SaveImage",
                          Some([filename_prefix |-> <<"ComfyUI">>, images |-> <<"link">>]))
                ELSE Node("KSampler", Some([seed |-> <<"7">>]))])
\* a SaveImage node without 'inputs'
CustomMalformed ==
    Payload(<<"1">>, [k \in {"1"} |-> Node("SaveImage", None)])
CustomPayloads == {CustomTextAndImage, CustomMalformed}

(* ------------------------------- events -------------------------------- *)
\* event['input'] as the validator sees it: errors are the strings the
\* validator reports for it (none for a well-formed input)
RawInput(errors, workflow, p) == [errors |-> errors, workflow |-> workflow, payload |-> p]
RawInputs ==
    {RawInput(<<<<"workflow is required">>>>, "default", None),
     RawInput(<<<<"seed must be int">>, <<"steps must be int">>>>, "default", None)}
    \cup {RawInput(<<>>, w, Some(Params)) : w \in {"default", "img2img"}}
    \cup {RawInput(<<>>, "custom", Some(c)) : c \in CustomPayloads}

\* id: "str" (a string id), "int" (an id that is no string), "absent"
Events ==
    {[id |-> "absent", input |-> None], [id |-> "int", input |-> None],
     [id |-> "str", input |-> None]}
    \cup {[id |-> "str", input |-> Some(i)] : i \in RawInputs}

\* rp_validator.validate(raw_input, INPUT_SCHEMA)
validate(raw) ==
    IF raw.errors # <<>> THEN [errors |-> raw.errors]
    ELSE [validated_input |-> [workflow |-> raw.workflow, payload |-> raw.payload[1]]]

(* ----------------------- generation service replies -------------------- *)
PROMPT_ID == "pid"
\* a reply body: v is the parsed value of a JSON body, raw the content of a
\* body that is no JSON text
JsonBody(v) == [kind |-> "json", v |-> v, raw |-> <<>>]
RawBody(c) == [kind |-> "raw", v |-> EmptyDict, raw |-> c]
Response(code, body) == [status_code |-> code, body |-> body]

\* replies to POST /prompt
QueueResponses ==
    {Response(200, JsonBody([prompt_id |-> PROMPT_ID])),
     Response(200, JsonBody([number |-> "1"])),
     Response(200, RawBody(<<"ok">>)),
     Response(202, JsonBody([prompt_id |-> PROMPT_ID])),
     Response(400, JsonBody([error |-> <<"invalid prompt">>])),
     Response(500, RawBody(<<"Internal Server Error">>))}

Message(k, v) == <<k, v>>
MessageValues ==
    {[node_type |-> <<"KSampler">>, exception_message |-> <<"CUDA OOM">>],
     [node_type |-> <<"KSampler">>]}
Messages ==
    {Message("execution_interrupted",
             [node_type |-> <<"VAEDecode">>, exception_message |-> <<"interrupted">>])}
    \cup {Message("execution_error", v) : v \in MessageValues}

RECURSIVE SeqsUpTo(_, _)
SeqsUpTo(S, n) ==
    IF n = 0 THEN {<<>>}
    ELSE LET shorter == SeqsUpTo(S, n - 1)
         IN shorter \cup {Append(q, x) : q \in {t \in shorter : Len(t) = n - 1}, x \in S}

MessageLists == SeqsUpTo(Messages, MaxMessages)

\* image descriptors of the outputs mapping, flattened in node order
Descriptor(filename, type) == [filename |-> filename, type |-> type]
OutName == <<"uuid1", "_", "00001", "_", ".png">>
TempName == <<"ComfyUI", "_", "temp", "_", ".png">>
Descriptors == {Descriptor(OutName, "output"), Descriptor(TempName, "temp")}
OutputLists == SeqsUpTo(Descriptors, MaxOutputs)

Status(s, c, m) == [status_str |-> s, completed |-> c, messages |-> m]
HistoryEntry(st, outs) == [status |-> st, outputs |-> outs]
HistoryEntries ==
    {HistoryEntry(Status("success", TRUE, <<>>), o) : o \in OutputLists}
    \cup {HistoryEntry(Status("error", FALSE, m), <<>>) : m \in MessageLists}
    \cup {HistoryEntry(Status("success", FALSE, m), <<>>) : m \in MessageLists}

\* bodies of GET /history/<prompt_id>
HistoryBodies ==
    {JsonBody(EmptyDict), RawBody(<<"Bad Gateway">>),
     JsonBody([error |-> <<"not found">>])}
    \cup {JsonBody([pid |-> e]) : e \in HistoryEntries}
HistoryResponses ==
    {Response(200, b) : b \in HistoryBodies}
    \cup {Response(404, b) : b \in {RawBody(<<"Bad Gateway">>), JsonBody(EmptyDict),
                                     JsonBody([error |-> <<"not found">>])}}

\* r.json(): ok = FALSE when the body is no JSON text (it raises)
json(resp) ==
    IF resp.body.kind = "json" THEN [ok |-> TRUE, v |-> resp.body.v]
    ELSE [ok |-> FALSE, v |-> EmptyDict]

\* str(response.content): the repr of the bytes
StrOfBytes(content) == <<"b'">> \o content \o <<"'">>

(* ------------------------------ file system --------------------------- *)
\* a file is [dir, name]; dir is "output" (<volume>/ComfyUI/output), "temp"
\* (<volume>/ComfyUI/temp) or "tmp" (/tmp); name is a str
Path(dir, name) == [dir |-> dir, name |-> name]
TextName == <<"uuid1", "_", "out", ".txt">>
ForeignTextName == <<"uuid9", "_", "out", ".TXT">>
\* a text file of the job whose extension is in upper case
UpperTextName == <<"uuid1", "_", "notes", ".TXT">>
FileSystems ==
    {{Path("output", OutName), Path("temp", TempName), Path("output", TextName)},
     {Path("output", OutName), Path("tmp", TempName), Path("output", ForeignTextName),
      Path("tmp", UpperTextName)}}

(* -------------------------------- state -------------------------------- *)
VARIABLES
    pc,                  \* position of the invocation in handler
    event,               \* the argument of handler
    environ_job_id,      \* os.environ['RUNPOD_JOB_ID'], None when unset
    memory_available_gb, \* memory_info.get('available') of the last snapshot
    disk_free_bytes,     \* disk_info.get('free_bytes')
    workflow_name,
    payload,
    uuid_n,              \* number of uuid4 draws made so far
    queue_response,      \* reply to POST /prompt, None before it
    retries,
    r,                   \* reply to the last GET /history, None before it
    output_files,        \* descriptors still to be processed by the image loop
    images,
    text_files,
    unique_prefix,       \* None or the str derived at lines 746-763
    scan_dirs,           \* directories scan_for_text_files has not listed yet
    listing,             \* names of the current os.listdir not yet visited
    fs,                  \* files on disk
    result,              \* "running", "dict" (returned response), "none"
                         \* (returned without a value), "raised" (an exception
                         \* left handler)
    response,            \* the returned dict
    exc,                 \* the exception caught at line 816: None or [at, type, msg]
    calls,               \* per-invocation counts of the effects issued
    peer,                \* a second job in flight on the same worker: its
                         \* position and its payload
    snapshot,            \* a resource snapshot taken on its own: the accounting
                         \* files read and the dicts returned
    jobs,                \* invocations dispatched on the worker process: the
                         \* position of each in its sequence of logging calls
    records              \* what SnapLogHandler.emit sent, in order

vars == <<pc, event, environ_job_id, memory_available_gb, disk_free_bytes,
          workflow_name, payload, uuid_n, queue_response, retries, r,
          output_files, images, text_files, unique_prefix, scan_dirs, listing,
          fs, result, response, exc, calls, peer, snapshot, jobs, records>>

NoCalls ==
    [validate |-> 0, template_read |-> 0, post |-> 0, get |-> 0,
     file_read |-> 0, file_delete |-> 0, status_log |-> 0, sleep |-> 0]
Count(c, k) == [c EXCEPT ![k] = @ + 1]
\* no second job
NoPeer == [pc |-> "absent", payload |-> None]
\* no snapshot on its own
NoSnapshot == [pc |-> "absent"]
\* the ids of the jobs the runtime may dispatch to one worker process
JOB_IDS == {"job-1", "job-2"}
\* no invocation is followed through its logging calls
NoJobs == [j \in JOB_IDS |-> "absent"]

Init ==
    /\ pc = "entry"
    /\ event \in Events
    /\ environ_job_id = None
    /\ memory_available_gb = None
    /\ disk_free_bytes = None
    /\ workflow_name = ""
    /\ payload = None
    /\ uuid_n = 0
    /\ queue_response = None
    /\ retries = 0
    /\ r = None
    /\ output_files = <<>>
    /\ images = <<>>
    /\ text_files = <<>>
    /\ unique_prefix = None
    /\ scan_dirs = <<>>
    /\ listing = {}
    /\ fs \in FileSystems
    /\ result = "running"
    /\ response = EmptyDict
    /\ exc = None
    /\ calls = NoCalls
    /\ peer = NoPeer
    /\ snapshot = NoSnapshot
    /\ jobs = NoJobs
    /\ records = <<>>

(* ------------------------- leaving the handler ------------------------- *)
\* traceback.format_exc() for an exception of the given type and message
format_exc(type, msg) == <<"Traceback (most recent call last):", type, ": ">> \o msg

\* variant of ExceptResponse: the except clause forgets the refresh flag
ExceptResponse_NoRefresh(type, msg) == [error |-> format_exc(type, msg)]

\* the dict built by the except clause of handler
ExceptResponse(type, msg) == [error |-> format_exc(type, msg), refresh_worker |-> TRUE]

\* lines 816-822: the except clause of handler
Except(at, type, msg) ==
    /\ exc' = Some([at |-> at, type |-> type, msg |-> msg])
    /\ response' = ExceptResponse(type, msg)
    /\ result' = "dict"
    /\ pc' = "done"

\* a return statement with a dict
Return(d) ==
    /\ response' = d
    /\ result' = "dict"
    /\ pc' = "done"
    /\ exc' = exc

\* an exception raised outside the try statement
Propagate ==
    /\ result' = "raised"
    /\ pc' = "done"
    /\ UNCHANGED <<response, exc>>

Continue(next) ==
    /\ pc' = next
    /\ UNCHANGED <<result, response, exc>>

(* -------------------------- handler, lines 597-598 --------------------- *)
handler_entry ==
    /\ pc = "entry"
    /\ IF event.id = "absent"
       THEN Propagate /\ UNCHANGED environ_job_id        \* KeyError: 'id'
       ELSE IF event.id # "str"
       THEN Propagate /\ UNCHANGED environ_job_id        \* TypeError: str expected
       ELSE Continue("guard") /\ environ_job_id' = Some("job-1")
    /\ UNCHANGED <<records, jobs, snapshot, peer, event, memory_available_gb, disk_free_bytes, workflow_name,
                   payload, uuid_n, queue_response, retries, r, output_files,
                   images, text_files, unique_prefix, scan_dirs, listing, fs, calls>>

(* -------------------------- handler, lines 601-613 --------------------- *)
\* variant of GuardVerdict: the free-disk test is missing
GuardVerdict_NoDisk(ma, df) ==
    IF ma # None /\ ma[1] < MEM_MIN_AVAILABLE_GB THEN "memory" ELSE "pass"

\* variant of GuardVerdict: the thresholds are inclusive
GuardVerdict_Inclusive(ma, df) ==
    IF ma # None /\ ma[1] <= MEM_MIN_AVAILABLE_GB THEN "memory"
    ELSE IF df # None /\ df[1] <= DISK_MIN_FREE_BYTES THEN "disk"
    ELSE "pass"

\* lines 608-613: "memory" or "disk" when the snapshot makes the guard raise,
\* "pass" otherwise
GuardVerdict(ma, df) ==
    IF ma # None /\ ma[1] < MEM_MIN_AVAILABLE_GB THEN "memory"
    ELSE IF df # None /\ df[1] < DISK_MIN_FREE_BYTES THEN "disk"
    ELSE "pass"

handler_guard ==
    /\ pc = "guard"
    /\ \E ma \in MemoryAvailables, df \in DiskFrees :
        /\ memory_available_gb' = ma
        /\ disk_free_bytes' = df
        /\ IF GuardVerdict(ma, df) = "memory"
           THEN Except("guard", "Exception",
                       <<"Insufficient available container memory", ": ", ToString(ma[1]),
                         " GB available (minimum 0.5 GB required)">>)
           ELSE IF GuardVerdict(ma, df) = "disk"
           THEN Except("guard", "Exception",
                       <<"Insufficient free container disk space", ": ", ToString(df[1]),
                         " GB available (minimum 0.5 GB required)">>)
           ELSE Continue("validate")
    /\ UNCHANGED <<records, jobs, snapshot, peer, event, environ_job_id, workflow_name, payload, uuid_n,
                   queue_response, retries, r, output_files, images, text_files,
                   unique_prefix, scan_dirs, listing, fs, calls>>

(* -------------------------- handler, lines 615-629 --------------------- *)
\* variant of ValidationErrorResponse: only the first error is reported
ValidationErrorResponse_First(validated_input) == [error |-> validated_input.errors[1]]

\* lines 617-620: the dict returned for a rejected input
ValidationErrorResponse(validated_input) == [error |-> JoinLines(validated_input.errors)]

handler_validate ==
    /\ pc = "validate"
    /\ IF event.input = None
       THEN /\ Except("validate", "KeyError", <<"'input'">>)
            /\ UNCHANGED <<workflow_name, payload, calls>>
       ELSE LET validated_input == validate(event.input[1])
            IN /\ calls' = Count(calls, "validate")
               /\ IF "errors" \in DOMAIN validated_input
                  THEN /\ Return(ValidationErrorResponse(validated_input))
                       /\ UNCHANGED <<workflow_name, payload>>
                  ELSE /\ payload' = Some(validated_input.validated_input.payload)
                       /\ workflow_name' =
                            IF validated_input.validated_input.workflow = "default"
                            THEN "txt2img"
                            ELSE validated_input.validated_input.workflow
                       /\ Continue("build")
    /\ UNCHANGED <<records, jobs, snapshot, peer, event, environ_job_id, memory_available_gb, disk_free_bytes,
                   uuid_n, queue_response, retries, r, output_files, images,
                   text_files, unique_prefix, scan_dirs, listing, fs>>

(* -------------------------- handler, lines 630-636 --------------------- *)
\* variant of LoadsTemplate: a template is loaded for every workflow
LoadsTemplate_Always(name) == TRUE
\* line 630: if workflow_name != 'custom'
LoadsTemplate(name) == name # "custom"

handler_build ==
    /\ pc = "build"
    /\ IF LoadsTemplate(workflow_name)
       THEN /\ calls' = Count(calls, "template_read")
            /\ \/ /\ Except("build", "FileNotFoundError", <<"/workflows/", workflow_name, ".json">>)
                  /\ UNCHANGED payload
               \/ /\ payload' = Some(get_workflow_payload(workflow_name,
                                                          TemplateFile(workflow_name),
                                                          payload[1]))
                  /\ Continue("inject")
       ELSE /\ Continue("inject")
            /\ UNCHANGED <<payload, calls>>
    /\ UNCHANGED <<records, jobs, snapshot, peer, event, environ_job_id, memory_available_gb, disk_free_bytes,
                   workflow_name, uuid_n, queue_response, retries, r,
                   output_files, images, text_files, unique_prefix, scan_dirs,
                   listing, fs>>

(* -------------------------- handler, line 638 -------------------------- *)
handler_inject ==
    /\ pc = "inject"
    /\ LET inj == create_unique_filename_prefix(payload[1], uuid_n)
       IN /\ payload' = Some(inj.payload)
          /\ uuid_n' = inj.n
          /\ IF inj.ok THEN Continue("submit")
             ELSE Except("inject", "KeyError", <<"'inputs'">>)
    /\ UNCHANGED <<records, jobs, snapshot, peer, event, environ_job_id, memory_available_gb, disk_free_bytes,
                   workflow_name, queue_response, retries, r, output_files,
                   images, text_files, unique_prefix, scan_dirs, listing, fs, calls>>

(* ---------------------- handler, lines 641-652, 803-815 ---------------- *)
\* variant of SubmitFailureResponse: the raw body is dropped
SubmitFailureResponse_NoBody(q) ==
    [error |-> <<"HTTP status code: ", ToString(q.status_code)>>,
     output |-> IF json(q).ok THEN json(q).v ELSE <<>>]

\* lines 803-815: the dict returned when POST /prompt did not answer 200
SubmitFailureResponse(q) ==
    [error |-> <<"HTTP status code: ", ToString(q.status_code)>>,
     output |-> IF json(q).ok THEN json(q).v ELSE StrOfBytes(q.body.raw)]

\* variant of Accepted: any answer carrying a prompt id is taken as queued
Accepted_AnyStatus(q) == TRUE
\* line 648: if queue_response.status_code == 200
Accepted(q) == q.status_code = 200

handler_submit ==
    /\ pc = "submit"
    /\ calls' = Count(calls, "post")
    /\ \/ \* session.post raises (connection refused, timeout)
          /\ Except("submit", "ConnectionError", <<"POST /prompt">>)
          /\ UNCHANGED queue_response
       \/ \E q \in QueueResponses :
            /\ queue_response' = Some(q)
            /\ IF Accepted(q)
               THEN IF ~json(q).ok
                    THEN Except("submit", "JSONDecodeError", <<"Expecting value">>)
                    ELSE IF "prompt_id" \notin DOMAIN json(q).v
                    THEN Except("submit", "KeyError", <<"'prompt_id'">>)
                    ELSE Continue("poll")
               ELSE Return(SubmitFailureResponse(q))
    /\ retries' = 0
    /\ UNCHANGED <<records, jobs, snapshot, peer, event, environ_job_id, memory_available_gb, disk_free_bytes,
                   workflow_name, payload, uuid_n, r, output_files, images,
                   text_files, unique_prefix, scan_dirs, listing, fs>>

(* -------------------------- handler, lines 654-666 --------------------- *)
\* faulty variant: the line is logged on every 15th attempt counted from one
LogsStatus_FromOne(n) == n = 0 \/ (n + 1) % 15 = 0
\* lines 655-656: retries == 0 or retries % 15 == 0
LogsStatus(n) == n = 0 \/ n % 15 = 0

\* the log line (if due) and the GET of one attempt
Attempt(c, n) == Count(IF LogsStatus(n) THEN Count(c, "status_log") ELSE c, "get")

\* one iteration of the while loop against a service that answers from
\* replies; bound caps the counter retries
poll_once(replies, bound) ==
    /\ \/ \* session.get raises
          /\ Except("poll", "ConnectionError", <<"GET /history">>)
          /\ calls' = Attempt(calls, retries)
          /\ UNCHANGED <<r, retries>>
       \/ \E h \in replies :
            /\ r' = Some(h)
            /\ IF ~json(h).ok
               THEN /\ Except("poll", "JSONDecodeError", <<"Expecting value">>)
                    /\ calls' = Attempt(calls, retries)
                    /\ UNCHANGED retries
               ELSE IF h.status_code = 200 /\ Cardinality(DOMAIN json(h).v) # 0
               THEN /\ Continue("status")
                    /\ calls' = Attempt(calls, retries)
                    /\ UNCHANGED retries
               ELSE /\ retries < bound
                    /\ Continue("poll")
                    /\ calls' = Count(Attempt(calls, retries), "sleep")
                    /\ retries' = retries + 1
    /\ UNCHANGED <<records, jobs, snapshot, peer, event, environ_job_id, memory_available_gb, disk_free_bytes,
                   workflow_name, payload, uuid_n, queue_response, output_files,
                   images, text_files, unique_prefix, scan_dirs, listing, fs>>

handler_poll ==
    /\ pc = "poll"
    /\ poll_once(HistoryResponses, MaxRetries)

(* ---------------------- handler, lines 668-675, 785-801 ---------------- *)
get_output_files(outputs) ==
    [i \in DOMAIN outputs |-> [type |-> "image", data |-> outputs[i]]]

\* the for loop over status['messages'] from position i: "fallthrough" when
\* the loop ends without raising, else the message of the RuntimeError
RECURSIVE MessageLoop(_, _)
MessageLoop(messages, i) ==
    IF i > Len(messages) THEN [out |-> "fallthrough", msg |-> <<>>]
    ELSE LET key == messages[i][1]
             value == messages[i][2]
         IN IF key = "execution_error"
            THEN IF "node_type" \in DOMAIN value /\ "exception_message" \in DOMAIN value
                 THEN [out |-> "raise",
                       msg |-> value.node_type \o <<": ">> \o value.exception_message]
                 ELSE [out |-> "raise",
                       msg |-> <<"Job did not process successfully for prompt_id: ", PROMPT_ID>>]
            ELSE MessageLoop(messages, i + 1)

\* variant of JobSucceeded: the completed flag is not looked at
JobSucceeded_StatusStrOnly(status) == status.status_str = "success"
\* line 670: status['status_str'] == 'success' and status['completed']
JobSucceeded(status) == status.status_str = "success" /\ status.completed

handler_status ==
    /\ pc = "status"
    /\ LET resp_json == json(r[1]).v
       IN IF PROMPT_ID \notin DOMAIN resp_json
          THEN /\ Except("status", "KeyError", <<"'", PROMPT_ID, "'">>)
               /\ UNCHANGED output_files
          ELSE LET status == resp_json[PROMPT_ID].status
               IN IF JobSucceeded(status)
                  THEN /\ output_files' = get_output_files(resp_json[PROMPT_ID].outputs)
                       /\ Continue("images")
                  ELSE LET m == MessageLoop(status.messages, 1)
                       IN /\ UNCHANGED output_files
                          /\ IF m.out = "raise"
                             THEN Except("status", "RuntimeError", m.msg)
                             ELSE \* the function body ends: handler returns None
                                  /\ result' = "none"
                                  /\ pc' = "done"
                                  /\ UNCHANGED <<response, exc>>
    /\ UNCHANGED <<records, jobs, snapshot, peer, event, environ_job_id, memory_available_gb, disk_free_bytes,
                   workflow_name, payload, uuid_n, queue_response, retries, r,
                   images, text_files, unique_prefix, scan_dirs, listing, fs, calls>>

(* -------------------------- handler, lines 680-742 --------------------- *)
\* base64 of the JPEG re-encoding of the file
JpegBase64(filename) == <<"jpeg/base64 of ">> \o filename

\* variant of TempPath: /tmp is never looked at
TempPath_OnlyTemp(files, filename) == Path("temp", filename)
\* lines 720-733: the path a temp image is deleted from, the service temp
\* directory first
TempPath(files, filename) ==
    IF Path("temp", filename) \in files THEN Path("temp", filename)
    ELSE Path("tmp", filename)

\* one iteration of the for loop over output_files
handler_image ==
    /\ pc = "images"
    /\ output_files # <<>>
    /\ LET data == Head(output_files).data
           out_path == Path("output", data.filename)
           temp_path == Path("temp", data.filename)
           tmp_path == Path("tmp", data.filename)
       IN IF data.type = "output"
          THEN IF out_path \in fs
               THEN \E converted \in BOOLEAN, removed \in BOOLEAN :
                      /\ images' = IF converted THEN Append(images, JpegBase64(data.filename))
                                   ELSE images
                      /\ calls' = Count(Count(calls, "file_read"), "file_delete")
                      /\ IF removed
                         THEN /\ fs' = fs \ {out_path}
                              /\ output_files' = Tail(output_files)
                              /\ Continue("images")
                         ELSE \* os.remove raises outside any inner try
                              /\ Except("images", "OSError", <<"os.remove">>)
                              /\ UNCHANGED <<fs, output_files>>
               ELSE /\ output_files' = Tail(output_files)
                    /\ Continue("images")
                    /\ UNCHANGED <<images, fs, calls>>
          ELSE IF data.type = "temp"
          THEN LET p == TempPath(fs, data.filename)
               IN /\ output_files' = Tail(output_files)
                  /\ Continue("images")
                  /\ UNCHANGED images
                  /\ IF p \in fs
                     THEN /\ calls' = Count(calls, "file_delete")
                          /\ \E removed \in BOOLEAN :
                               fs' = IF removed THEN fs \ {p} ELSE fs
                     ELSE UNCHANGED <<fs, calls>>
          ELSE /\ output_files' = Tail(output_files)
               /\ Continue("images")
               /\ UNCHANGED <<images, fs, calls>>
    /\ UNCHANGED <<records, jobs, snapshot, peer, event, environ_job_id, memory_available_gb, disk_free_bytes,
                   workflow_name, payload, uuid_n, queue_response, retries, r,
                   text_files, unique_prefix, scan_dirs, listing>>

(* -------------------------- handler, lines 746-765 --------------------- *)
\* filename.split('_')[0]
RECURSIVE BeforeUnderscore(_)
BeforeUnderscore(name) ==
    IF name = <<>> \/ Head(name) = "_" THEN <<>>
    ELSE <<Head(name)>> \o BeforeUnderscore(Tail(name))

\* the for loop deriving unique_prefix, from position i of the key order
RECURSIVE PrefixLoop(_, _)
PrefixLoop(p, i) ==
    IF i > Len(p.order) THEN None
    ELSE LET value == p.nodes[p.order[i]]
         IN IF value.inputs = None THEN PrefixLoop(p, i + 1)
            ELSE LET inp == value.inputs[1]
                 IN IF "filename_prefix" \in DOMAIN inp THEN Some(inp["filename_prefix"])
                    ELSE IF "file" \in DOMAIN inp
                    THEN IF Contains(inp["file"], "_")
                         THEN Some(BeforeUnderscore(inp["file"]))
                         ELSE PrefixLoop(p, i + 1)
                    ELSE IF "filename" \in DOMAIN inp
                    THEN IF Contains(inp["filename"], "_")
                         THEN Some(BeforeUnderscore(inp["filename"]))
                         ELSE PrefixLoop(p, i + 1)
                    ELSE PrefixLoop(p, i + 1)

SCAN_DIRS == <<"output", "temp", "tmp">>
TEXT_EXTENSIONS == {".txt", ".json", ".xml", ".csv", ".log", ".md", ".yaml", ".yml"}

\* str.lower() on the last fragment of a name
Lower(frag) == IF frag = ".TXT" THEN ".txt" ELSE frag
\* any(filename.lower().endswith(ext) for ext in text_extensions)
HasTextExtension(name) == name # <<>> /\ Lower(name[Len(name)]) \in TEXT_EXTENSIONS
\* filename.startswith(prefix)
StartsWith(name, prefix) ==
    Len(prefix) <= Len(name) /\ SubSeq(name, 1, Len(prefix)) = prefix

\* variant of Selected: the prefix is not looked at
Selected_AnyPrefix(name, prefix) == HasTextExtension(name)

\* lines 849-852: the file is one scan_for_text_files processes
Selected(name, prefix) ==
    /\ HasTextExtension(name)
    /\ ~(prefix # None /\ prefix[1] # <<>> /\ ~StartsWith(name, prefix[1]))

\* the image loop is over: derive the prefix and enter scan_for_text_files
handler_prefix ==
    /\ pc = "images"
    /\ output_files = <<>>
    /\ unique_prefix' = PrefixLoop(payload[1], 1)
    /\ text_files' = <<>>
    /\ scan_dirs' = SCAN_DIRS
    /\ listing' = {}
    /\ Continue("scan")
    /\ UNCHANGED <<records, jobs, snapshot, peer, event, environ_job_id, memory_available_gb, disk_free_bytes,
                   workflow_name, payload, uuid_n, queue_response, retries, r,
                   output_files, images, fs, calls>>

(* ---------------------- scan_for_text_files, lines 842-847 ------------- *)
\* start of one iteration of the loop over scan_dirs: os.path.exists and
\* os.listdir; a listdir that raises is caught at line 876
scan_listdir ==
    /\ pc = "scan"
    /\ scan_dirs # <<>>
    /\ LET names == {f.name : f \in {g \in fs : g.dir = Head(scan_dirs)}}
       IN \/ /\ listing' = names
             /\ IF names = {}
                THEN scan_dirs' = Tail(scan_dirs) /\ Continue("scan")
                ELSE UNCHANGED scan_dirs /\ Continue("scan_files")
          \/ /\ listing' = {}
             /\ scan_dirs' = Tail(scan_dirs)
             /\ Continue("scan")
    /\ UNCHANGED <<records, jobs, snapshot, peer, event, environ_job_id, memory_available_gb, disk_free_bytes,
                   workflow_name, payload, uuid_n, queue_response, retries, r,
                   output_files, images, text_files, unique_prefix, fs, calls>>

(* ---------------------- scan_for_text_files, lines 845-875 ------------- *)
TextEntry(filename, content) == [filename |-> filename, content |-> content]
\* what each attempt on one file does: read1/rm1 are the text-mode read and
\* the os.remove of lines 855-862, read2/rm2 those of lines 866-873
FileOutcomes == [read1 : BOOLEAN, rm1 : BOOLEAN, read2 : BOOLEAN, rm2 : BOOLEAN]

\* variant of ProcessFile: a failure of the binary fallback leaves the scan
ProcessFile_FallbackRaises(name, o) ==
    LET first == IF o.read1 THEN <<TextEntry(name, <<"text of ">> \o name)>> ELSE <<>>
        fallback == ~o.read1 \/ ~o.rm1
        second == IF fallback /\ o.read2
                  THEN <<TextEntry(name, <<"decoded bytes of ">> \o name)>> ELSE <<>>
    IN [entries |-> first \o second,
        deleted |-> (o.read1 /\ o.rm1) \/ (fallback /\ o.read2 /\ o.rm2),
        reads |-> 1 + (IF fallback THEN 1 ELSE 0),
        deletes |-> (IF o.read1 THEN 1 ELSE 0) + (IF fallback /\ o.read2 THEN 1 ELSE 0),
        raised |-> fallback /\ (~o.read2 \/ ~o.rm2)]

\* lines 854-875 for one selected file: the entries appended, whether the
\* file was removed, the reads and removals attempted, and whether an
\* exception leaves the block (line 874 catches every Exception and logs it)
ProcessFile(name, o) ==
    LET first == IF o.read1 THEN <<TextEntry(name, <<"text of ">> \o name)>> ELSE <<>>
        fallback == ~o.read1 \/ ~o.rm1
        second == IF fallback /\ o.read2
                  THEN <<TextEntry(name, <<"decoded bytes of ">> \o name)>> ELSE <<>>
    IN [entries |-> first \o second,
        deleted |-> (o.read1 /\ o.rm1) \/ (fallback /\ o.read2 /\ o.rm2),
        reads |-> 1 + (IF fallback THEN 1 ELSE 0),
        deletes |-> (IF o.read1 THEN 1 ELSE 0) + (IF fallback /\ o.read2 THEN 1 ELSE 0),
        raised |-> FALSE]

\* the body of the loop over os.listdir for one file name
scan_file ==
    /\ pc = "scan_files"
    /\ \E name \in listing, o \in FileOutcomes :
        LET path == Path(Head(scan_dirs), name)
            done == ProcessFile(name, o)
        IN IF Selected(name, unique_prefix)
           THEN /\ text_files' = text_files \o done.entries
                /\ fs' = IF done.deleted THEN fs \ {path} ELSE fs
                /\ calls' = [calls EXCEPT !["file_read"] = @ + done.reads,
                                          !["file_delete"] = @ + done.deletes]
                /\ IF done.raised
                   THEN /\ Except("scan", "OSError", <<"scan_for_text_files">>)
                        /\ UNCHANGED <<listing, scan_dirs>>
                   ELSE /\ listing' = listing \ {name}
                        /\ IF listing' = {}
                           THEN scan_dirs' = Tail(scan_dirs) /\ Continue("scan")
                           ELSE UNCHANGED scan_dirs /\ Continue("scan_files")
           ELSE /\ listing' = listing \ {name}
                /\ IF listing' = {}
                   THEN scan_dirs' = Tail(scan_dirs) /\ Continue("scan")
                   ELSE UNCHANGED scan_dirs /\ Continue("scan_files")
                /\ UNCHANGED <<text_files, fs, calls>>
    /\ UNCHANGED <<records, jobs, snapshot, peer, event, environ_job_id, memory_available_gb, disk_free_bytes,
                   workflow_name, payload, uuid_n, queue_response, retries, r,
                   output_files, images, unique_prefix>>

(* -------------------------- handler, lines 765-783 --------------------- *)
\* variant of SuccessResponse: text_files is always part of the response
SuccessResponse_AlwaysTextFiles(imgs, texts, ma) ==
    LET r1 == [images |-> imgs, text_files |-> texts]
    IN IF ma # None /\ ma[1] < MEM_REFRESH_GB
       THEN Put(r1, "refresh_worker", TRUE) ELSE r1

\* variant of SuccessResponse: the refresh threshold is inclusive
SuccessResponse_Inclusive(imgs, texts, ma) ==
    LET r0 == [images |-> imgs]
        r1 == IF texts # <<>> THEN Put(r0, "text_files", texts) ELSE r0
    IN IF ma # None /\ ma[1] <= MEM_REFRESH_GB
       THEN Put(r1, "refresh_worker", TRUE) ELSE r1

\* lines 767-783: the response of a successful job; ma is the available
\* memory of the snapshot taken after the harvest
SuccessResponse(imgs, texts, ma) ==
    LET r0 == [images |-> imgs]
        r1 == IF texts # <<>> THEN Put(r0, "text_files", texts) ELSE r0
    IN IF ma # None /\ ma[1] < MEM_REFRESH_GB
       THEN Put(r1, "refresh_worker", TRUE) ELSE r1

handler_respond ==
    /\ pc = "scan"
    /\ scan_dirs = <<>>
    /\ \E env \in PostJobMemEnvs :
        LET ma == Get(get_container_memory_info(env), "available")
        IN /\ memory_available_gb' = ma
           /\ Return(SuccessResponse(images, text_files, ma))
    /\ UNCHANGED <<records, jobs, snapshot, peer, event, environ_job_id, disk_free_bytes, workflow_name,
                   payload, uuid_n, queue_response, retries, r, output_files, images,
                   text_files, unique_prefix, scan_dirs, listing, fs, calls>>

(* ------------------------------ behaviours ------------------------------ *)
Next ==
    \/ handler_entry
    \/ handler_guard
    \/ handler_validate
    \/ handler_build
    \/ handler_inject
    \/ handler_submit
    \/ handler_poll
    \/ handler_status
    \/ handler_image
    \/ handler_prefix
    \/ scan_listdir
    \/ scan_file
    \/ handler_respond

Spec == Init /\ [][Next]_vars

(* ------- one job against a service that is pending, then succeeds ------ *)
MaxEmptyPolls == 31
\* GET /history/<prompt_id> while the prompt is queued or running: 200 and {}
EmptyHistory == Response(200, JsonBody(EmptyDict))
SuccessReplies ==
    {Response(200, JsonBody([pid |-> HistoryEntry(Status("success", TRUE, <<>>), o)])) :
        o \in OutputLists}
PollEvent == [id |-> "str", input |-> Some(RawInput(<<>>, "custom", Some(CustomTextAndImage)))]
PollFileSystem ==
    {Path("output", OutName), Path("temp", TempName), Path("output", TextName)}

InitPoll ==
    /\ Init
    /\ event = PollEvent
    /\ fs = PollFileSystem

handler_poll_pending ==
    /\ pc = "poll"
    /\ poll_once({EmptyHistory} \cup SuccessReplies, MaxEmptyPolls)

NextPoll ==
    \/ handler_entry
    \/ handler_guard
    \/ handler_validate
    \/ handler_build
    \/ handler_inject
    \/ handler_submit
    \/ handler_poll_pending
    \/ handler_status
    \/ handler_image
    \/ handler_prefix
    \/ scan_listdir
    \/ scan_file
    \/ handler_respond

PollSpec == InitPoll /\ [][NextPoll]_vars

(* ---------------- one job whose scan meets several text files --------- *)
\* two text files of the job in the output directory
JsonTextName == <<"uuid1", "_", "log", ".json">>
ScanFileSystem ==
    {Path("output", OutName), Path("tmp", TempName), Path("output", TextName),
     Path("output", JsonTextName)}

InitScan ==
    /\ pc = "entry"
    /\ event = PollEvent
    /\ environ_job_id = None
    /\ memory_available_gb = None
    /\ disk_free_bytes = None
    /\ workflow_name = ""
    /\ payload = None
    /\ uuid_n = 0
    /\ queue_response = None
    /\ retries = 0
    /\ r = None
    /\ output_files = <<>>
    /\ images = <<>>
    /\ text_files = <<>>
    /\ unique_prefix = None
    /\ scan_dirs = <<>>
    /\ listing = {}
    /\ fs = ScanFileSystem
    /\ result = "running"
    /\ response = EmptyDict
    /\ exc = None
    /\ calls = NoCalls
    /\ peer = NoPeer
    /\ snapshot = NoSnapshot
    /\ jobs = NoJobs
    /\ records = <<>>

ScanSpec == InitScan /\ [][Next]_vars

(* ------------- two jobs in flight: injection of both payloads ---------- *)
FILENAME_FIELDS == {"filename_prefix", "file", "filename"}
FieldValue(f) ==
    IF f = "filename_prefix" THEN <<"notes">>
    ELSE IF f = "file" THEN <<"out", ".txt">>
    ELSE <<"log", ".txt">>
\* payloads of one node: a text-output node with every subset of the three
\* fields, an image-output node or a sampler with or without filename_prefix
OneNodePayloads ==
    {Payload(<<"1">>, [k \in {"1"} |-> Node(c, Some([f \in F |-> FieldValue(f)]))]) :
        c \in TEXT_OUTPUT_CLASSES, F \in SUBSET FILENAME_FIELDS}
    \cup {Payload(<<"1">>, [k \in {"1"} |-> Node(c, Some([f \in F |-> FieldValue(f)]))]) :
            c \in {"SaveImage", "KSampler"}, F \in SUBSET {"filename_prefix"}}
InjectPayloads == OneNodePayloads \cup CustomPayloads

\* both jobs have passed validation with a custom payload
InitInject ==
    \E p \in InjectPayloads, q \in InjectPayloads :
        /\ pc = "inject"
        /\ event = [id |-> "str", input |-> Some(RawInput(<<>>, "custom", Some(p)))]
        /\ environ_job_id = Some("job-1")
        /\ memory_available_gb = None
        /\ disk_free_bytes = None
        /\ workflow_name = "custom"
        /\ payload = Some(p)
        /\ uuid_n = 0
        /\ queue_response = None
        /\ retries = 0
        /\ r = None
        /\ output_files = <<>>
        /\ images = <<>>
        /\ text_files = <<>>
        /\ unique_prefix = None
        /\ scan_dirs = <<>>
        /\ listing = {}
        /\ fs = PollFileSystem
        /\ result = "running"
        /\ response = EmptyDict
        /\ exc = None
        /\ calls = Count(NoCalls, "validate")
        /\ peer = [pc |-> "inject", payload |-> Some(q)]
        /\ snapshot = NoSnapshot
    /\ jobs = NoJobs
    /\ records = <<>>

\* line 638 in the second job; the uuids of both jobs are draws of uuid4
peer_inject ==
    /\ peer.pc = "inject"
    /\ LET inj == create_unique_filename_prefix(peer.payload[1], uuid_n)
       IN /\ peer' = [pc |-> IF inj.ok THEN "submit" ELSE "done",
                      payload |-> Some(inj.payload)]
          /\ uuid_n' = inj.n
    /\ UNCHANGED <<records, jobs, snapshot, pc, event, environ_job_id, memory_available_gb, disk_free_bytes,
                   workflow_name, payload, queue_response, retries, r, output_files,
                   images, text_files, unique_prefix, scan_dirs, listing, fs,
                   result, response, exc, calls>>

NextInject ==
    \/ handler_inject
    \/ peer_inject

InjectSpec == InitInject /\ [][NextInject]_vars

(* ------------ two jobs in flight on one worker and one disk ------------ *)
\* a workflow whose only output node previews the image: no node carries a
\* filename field
CustomPreview ==
    Payload(<<"1">>, [k \in {"1"} |-> Node("PreviewImage", Some([images |-> <<"link">>]))])

\* a workflow that saves its image before its text: the SaveImage node comes
\* first in the payload
CustomImageThenText ==
    Payload(<<"1", "2">>,
            [k \in {"1", "2"} |->
                IF k = "1"
                THEN Node("SaveImage",
                          Some([filename_prefix |-> <<"ComfyUI">>, images |-> <<"link">>]))
                ELSE Node("SaveText|pysssss",
                          Some([file |-> <<"out", ".txt">>, text |-> <<"hello">>]))])

\* names of the text files the generation service writes for a payload: the
\* 'file' input of its text-output nodes
TextOutputs(p) ==
    {p.nodes[k].inputs[1]["file"] :
        k \in {j \in DOMAIN p.nodes :
                  /\ p.nodes[j].class_type \in TEXT_OUTPUT_CLASSES
                  /\ p.nodes[j].inputs # None
                  /\ "file" \in DOMAIN p.nodes[j].inputs[1]}}

InitShared ==
    /\ pc = "entry"
    /\ \E c \in {CustomTextAndImage, CustomPreview, CustomImageThenText} :
         event = [id |-> "str", input |-> Some(RawInput(<<>>, "custom", Some(c)))]
    /\ environ_job_id = None
    /\ memory_available_gb = None
    /\ disk_free_bytes = None
    /\ workflow_name = ""
    /\ payload = None
    /\ uuid_n = 0
    /\ queue_response = None
    /\ retries = 0
    /\ r = None
    /\ output_files = <<>>
    /\ images = <<>>
    /\ text_files = <<>>
    /\ unique_prefix = None
    /\ scan_dirs = <<>>
    /\ listing = {}
    /\ fs = {Path("output", OutName), Path("temp", TempName)}
    /\ result = "running"
    /\ response = EmptyDict
    /\ exc = None
    /\ calls = NoCalls
    /\ peer = [pc |-> "inject", payload |-> Some(CustomTextAndImage)]
    /\ snapshot = NoSnapshot
    /\ jobs = NoJobs
    /\ records = <<>>

\* the generation service runs the submitted workflow of this job and writes
\* the files of its text-output nodes into the output directory
service_write ==
    /\ pc = "poll"
    /\ TextOutputs(payload[1]) # {}
    /\ \A n \in TextOutputs(payload[1]) : Path("output", n) \notin fs
    /\ fs' = fs \cup {Path("output", n) : n \in TextOutputs(payload[1])}
    /\ UNCHANGED <<records, jobs, snapshot, pc, event, environ_job_id, memory_available_gb, disk_free_bytes,
                   workflow_name, payload, uuid_n, queue_response, retries, r,
                   output_files, images, text_files, unique_prefix, scan_dirs,
                   listing, result, response, exc, calls, peer>>

\* the same for the workflow of the second job
peer_write ==
    /\ peer.pc = "submit"
    /\ peer' = [peer EXCEPT !.pc = "written"]
    /\ fs' = fs \cup {Path("output", n) : n \in TextOutputs(peer.payload[1])}
    /\ UNCHANGED <<records, jobs, snapshot, pc, event, environ_job_id, memory_available_gb, disk_free_bytes,
                   workflow_name, payload, uuid_n, queue_response, retries, r,
                   output_files, images, text_files, unique_prefix, scan_dirs,
                   listing, result, response, exc, calls>>

NextShared ==
    \/ handler_entry
    \/ handler_guard
    \/ handler_validate
    \/ handler_build
    \/ handler_inject
    \/ handler_submit
    \/ handler_poll
    \/ handler_status
    \/ handler_image
    \/ handler_prefix
    \/ scan_listdir
    \/ scan_file
    \/ handler_respond
    \/ peer_inject
    \/ service_write
    \/ peer_write

SharedSpec == InitShared /\ [][NextShared]_vars

(* ------------------ the resource snapshot of the guard ----------------- *)
\* a disk and a memory environment without any failure
PlainDiskEnv ==
    [usage |-> Some([total |-> 1073741824, free |-> 524288000]),
     iostat |-> Missing, blkio |-> Missing, blkiob |-> Missing]
PlainMemEnv == MemEnv(HostOnly(1048576), Missing, Missing)

\* the invocation stands at the guard; the accounting files are any
\* combination for the memory or for the disk
InitSnapshot ==
    /\ pc = "guard"
    /\ event = PollEvent
    /\ environ_job_id = Some("job-1")
    /\ memory_available_gb = None
    /\ disk_free_bytes = None
    /\ workflow_name = ""
    /\ payload = None
    /\ uuid_n = 0
    /\ queue_response = None
    /\ retries = 0
    /\ r = None
    /\ output_files = <<>>
    /\ images = <<>>
    /\ text_files = <<>>
    /\ unique_prefix = None
    /\ scan_dirs = <<>>
    /\ listing = {}
    /\ fs = PollFileSystem
    /\ result = "running"
    /\ response = EmptyDict
    /\ exc = None
    /\ calls = NoCalls
    /\ peer = NoPeer
    /\ jobs = NoJobs
    /\ records = <<>>
    /\ \E e \in (MemEnvs \X {PlainDiskEnv}) \cup ({PlainMemEnv} \X DiskEnvs) :
         snapshot = [pc |-> "memory", mem |-> e[1], disk |-> e[2],
                     memory_info |-> EmptyDict, disk_info |-> EmptyDict,
                     verdict |-> "none"]

\* line 602: memory_info = get_container_memory_info(job_id)
snapshot_memory ==
    /\ snapshot.pc = "memory"
    /\ snapshot' = [snapshot EXCEPT !.pc = "disk",
                                    !.memory_info = get_container_memory_info(snapshot.mem)]
    /\ UNCHANGED <<pc, event, environ_job_id, memory_available_gb, disk_free_bytes,
                   workflow_name, payload, uuid_n, queue_response, retries, r,
                   output_files, images, text_files, unique_prefix, scan_dirs,
                   listing, fs, result, response, exc, calls, peer,
                   jobs, records>>

\* lines 603-613: disk_info = get_container_disk_info(job_id), then the two
\* threshold tests
snapshot_disk ==
    /\ snapshot.pc = "disk"
    /\ LET di == get_container_disk_info(snapshot.disk)
       IN snapshot' = [snapshot EXCEPT
                          !.pc = "done",
                          !.disk_info = di,
                          !.verdict = GuardVerdict(Get(snapshot.memory_info, "available"),
                                                   Get(di, "free_bytes"))]
    /\ UNCHANGED <<pc, event, environ_job_id, memory_available_gb, disk_free_bytes,
                   workflow_name, payload, uuid_n, queue_response, retries, r,
                   output_files, images, text_files, unique_prefix, scan_dirs,
                   listing, fs, result, response, exc, calls, peer,
                   jobs, records>>

NextSnapshot ==
    \/ snapshot_memory
    \/ snapshot_disk

SnapshotSpec == InitSnapshot /\ [][NextSnapshot]_vars

(* ------------- invocations dispatched to one worker process ------------ *)
\* the logging calls an invocation makes on its way to the poll loop, each
\* named by its place: line 390 (from the snapshot of line 602), 629, 651
LOG_CALLS == <<"memory", "workflow", "queued">>
LogMessage(at) ==
    CASE at = "memory" -> <<"Container Memory (GB): ">>
      [] at = "workflow" -> <<"Workflow: ", "custom">>
      [] at = "queued" -> <<"Prompt queued successfully: ", PROMPT_ID>>
\* the place after at: the next logging call, or the return
AfterLog(at) ==
    CASE at = "memory" -> "workflow"
      [] at = "workflow" -> "queued"
      [] at = "queued" -> "return"

\* logging.info(msg, job_id): the record handed to the handlers of the root
\* logger
LogRecord(msg, job_id) == [msg |-> msg, args |-> <<job_id>>]

\* lines 55-114, SnapLogHandler.emit: the job id is read from the process
\* environment when the record is emitted; what is sent carries the message
\* and that id
emit(record, environ) ==
    LET runpod_job_id == environ
    IN [log_message |-> record.msg, args |-> record.args,
        runpod_job_id |-> runpod_job_id]

InitLog ==
    /\ pc = "entry"
    /\ event = PollEvent
    /\ environ_job_id = None
    /\ memory_available_gb = None
    /\ disk_free_bytes = None
    /\ workflow_name = ""
    /\ payload = None
    /\ uuid_n = 0
    /\ queue_response = None
    /\ retries = 0
    /\ r = None
    /\ output_files = <<>>
    /\ images = <<>>
    /\ text_files = <<>>
    /\ unique_prefix = None
    /\ scan_dirs = <<>>
    /\ listing = {}
    /\ fs = PollFileSystem
    /\ result = "running"
    /\ response = EmptyDict
    /\ exc = None
    /\ calls = NoCalls
    /\ peer = NoPeer
    /\ snapshot = NoSnapshot
    /\ jobs = [j \in JOB_IDS |-> "waiting"]
    /\ records = <<>>

\* lines 596-598: job_id = event['id']; os.environ['RUNPOD_JOB_ID'] = job_id
job_entry(j) ==
    /\ jobs[j] = "waiting"
    /\ environ_job_id' = Some(j)
    /\ jobs' = [jobs EXCEPT ![j] = LOG_CALLS[1]]
    /\ UNCHANGED <<pc, event, memory_available_gb, disk_free_bytes,
                   workflow_name, payload, uuid_n, queue_response, retries, r,
                   output_files, images, text_files, unique_prefix, scan_dirs,
                   listing, fs, result, response, exc, calls, peer, snapshot,
                   records>>

\* one logging call of the invocation of job j, its own job_id passed as
\* the argument, handled by SnapLogHandler.emit
job_log(j) ==
    /\ jobs[j] \in {LOG_CALLS[i] : i \in DOMAIN LOG_CALLS}
    /\ records' = Append(records, emit(LogRecord(LogMessage(jobs[j]), j), environ_job_id))
    /\ jobs' = [jobs EXCEPT ![j] = AfterLog(jobs[j])]
    /\ UNCHANGED <<pc, event, environ_job_id, memory_available_gb, disk_free_bytes,
                   workflow_name, payload, uuid_n, queue_response, retries, r,
                   output_files, images, text_files, unique_prefix, scan_dirs,
                   listing, fs, result, response, exc, calls, peer, snapshot>>

\* the invocation returns; the environment variable is left as it is
job_return(j) ==
    /\ jobs[j] = "return"
    /\ jobs' = [jobs EXCEPT ![j] = "returned"]
    /\ UNCHANGED <<pc, event, environ_job_id, memory_available_gb, disk_free_bytes,
                   workflow_name, payload, uuid_n, queue_response, retries, r,
                   output_files, images, text_files, unique_prefix, scan_dirs,
                   listing, fs, result, response, exc, calls, peer, snapshot,
                   records>>

NextLog ==
    \/ \E j \in JOB_IDS : job_entry(j)
    \/ \E j \in JOB_IDS : job_log(j)
    \/ \E j \in JOB_IDS : job_return(j)

LogSpec == InitLog /\ [][NextLog]_vars

(* ============================= properties =============================== *)
IsSuccess(resp) == "images" \in DOMAIN resp /\ "error" \notin DOMAIN resp
IsError(resp) == "error" \in DOMAIN resp /\ "images" \notin DOMAIN resp
Refreshes(resp) == "refresh_worker" \in DOMAIN resp /\ resp["refresh_worker"] = TRUE

\* the last history reply is a resolved record for the prompt
Resolved ==
    /\ r # None
    /\ r[1].status_code = 200
    /\ PROMPT_ID \in DOMAIN json(r[1]).v
ResolvedStatus == json(r[1]).v[PROMPT_ID].status
ResolvedSuccess == ResolvedStatus.status_str = "success" /\ ResolvedStatus.completed
\* positions of the execution_error messages carrying both fields
FullErrors(messages) ==
    {i \in DOMAIN messages :
        /\ messages[i][1] = "execution_error"
        /\ "node_type" \in DOMAIN messages[i][2]
        /\ "exception_message" \in DOMAIN messages[i][2]}
First(S) == CHOOSE i \in S : \A j \in S : i <= j

\* C1: every invocation that returns yields either a success object (key
\* 'images', no 'error') or an error object (key 'error', no 'images'); it
\* never returns without a value, whatever the poll outcome.
C1_ResponseShape ==
    result \in {"dict", "none"} =>
        /\ result = "dict"
        /\ IsSuccess(response) \/ IsError(response)

\* C2: no exception propagates out of handler: a failure of any step,
\* reading the event's id and setting the environment variable included,
\* ends in the uniform error response.
C2_NothingPropagates == result # "raised"

\* C3: every exception raised inside the pipeline yields an error response
\* with refresh_worker = true, and an error response without refresh_worker
\* is a validation error or a submission transport failure.
C3_RefreshOnException ==
    /\ exc # None => result = "dict" /\ IsError(response) /\ Refreshes(response)
    /\ (result = "dict" /\ IsError(response) /\ "refresh_worker" \notin DOMAIN response) =>
          /\ exc = None
          /\ \/ /\ calls.validate = 1
                /\ calls.post = 0
                /\ "errors" \in DOMAIN validate(event.input[1])
             \/ /\ queue_response # None
                /\ queue_response[1].status_code # 200
\* a file-system error during harvesting was caught and answered
C3_Witness ==
    /\ exc # None
    /\ exc[1].at = "images"
    /\ Refreshes(response)

LowMemory(ma) == ma # None /\ ma[1] < MEM_MIN_AVAILABLE_GB
LowDisk(df) == df # None /\ df[1] < DISK_MIN_FREE_BYTES

\* C4: when the pre-flight snapshot reports a known available memory below
\* 0.5 GB or a known free disk below 524288000 bytes, the handler returns an
\* error response naming the insufficient resource, and the invocation issues
\* no POST /prompt, no history poll and no file deletion (the guard step ends
\* the invocation: no step follows pc = "done").
C4_LowResourceRejected ==
    [][/\ pc # "done"
       /\ (pc = "guard" /\ (LowMemory(memory_available_gb') \/ LowDisk(disk_free_bytes'))) =>
            /\ pc' = "done"
            /\ result' = "dict"
            /\ IsError(response')
            /\ LowMemory(memory_available_gb') =>
                 Contains(response'.error, "Insufficient available container memory")
            /\ ~LowMemory(memory_available_gb') =>
                 Contains(response'.error, "Insufficient free container disk space")
            /\ calls'.post = 0 /\ calls'.get = 0 /\ calls'.file_delete = 0
            /\ fs' = fs]_vars
\* a job was rejected for low disk alone
C4_Witness ==
    /\ pc = "done"
    /\ exc # None /\ exc[1].at = "guard"
    /\ ~LowMemory(memory_available_gb)
    /\ LowDisk(disk_free_bytes)
    /\ Contains(response.error, "Insufficient free container disk space")
    /\ calls.post = 0

\* C5: the guard fails open with strict thresholds: when available memory is
\* unknown or at least 0.5 GB and free disk is unknown or at least 524288000
\* bytes, the guard does not reject and the handler goes on to validation.
C5_GuardFailsOpen ==
    [][(pc = "guard" /\ ~LowMemory(memory_available_gb') /\ ~LowDisk(disk_free_bytes')) =>
            /\ pc' = "validate"
            /\ result' = "running"
            /\ exc' = None]_vars
\* a job with unknown memory and free disk exactly at the threshold was
\* submitted
C5_Witness ==
    /\ memory_available_gb = None
    /\ disk_free_bytes = Some(DISK_MIN_FREE_BYTES)
    /\ calls.validate = 1
    /\ calls.post = 1

\* C6: when the resolved record has status_str other than 'success' and its
\* messages hold an execution_error pair carrying node_type and
\* exception_message, the response is {error, refresh_worker: true} whose
\* text holds the node type and the exception message of the first such
\* pair, and nothing was harvested.
C6_ExecutionErrorNamed ==
    (/\ pc = "done"
     /\ Resolved
     /\ ResolvedStatus.status_str # "success"
     /\ FullErrors(ResolvedStatus.messages) # {}) =>
        LET v == ResolvedStatus.messages[First(FullErrors(ResolvedStatus.messages))][2]
        IN /\ result = "dict"
           /\ IsError(response)
           /\ Refreshes(response)
           /\ \A frag \in Range(v.node_type) \cup Range(v.exception_message) :
                 Contains(response.error, frag)
           /\ calls.file_read = 0 /\ calls.file_delete = 0

\* C7: when the resolved record is not (status_str = 'success' and
\* completed) and its messages hold no execution_error pair carrying both
\* node_type and exception_message, the response is an error stating that
\* the job did not process successfully, without the history JSON.
C7_GenericFailure ==
    (/\ pc = "done"
     /\ Resolved
     /\ ~ResolvedSuccess
     /\ FullErrors(ResolvedStatus.messages) = {}) =>
        /\ result = "dict"
        /\ IsError(response)
        /\ Contains(response.error, "Job did not process successfully for prompt_id: ")
        /\ "output" \notin DOMAIN response

\* C8: when POST /prompt answers a status other than 200, the response is
\* {error: 'HTTP status code: <status>', output: <parsed JSON body, or the
\* raw body as text>} without refresh_worker, and the invocation makes no
\* history poll and reads or deletes no file.
C8_SubmitFailure ==
    (queue_response # None /\ queue_response[1].status_code # 200) =>
        LET q == queue_response[1]
        IN /\ pc = "done"
           /\ result = "dict"
           /\ DOMAIN response = {"error", "output"}
           /\ response.error = <<"HTTP status code: ", ToString(q.status_code)>>
           /\ IF q.body.kind = "json"
              THEN response.output = q.body.v
              ELSE response.output = StrOfBytes(q.body.raw)
           /\ calls.get = 0 /\ calls.file_read = 0 /\ calls.file_delete = 0
\* a 500 reply with a body that is no JSON was answered
C8_Witness ==
    /\ pc = "done"
    /\ queue_response = Some(Response(500, RawBody(<<"Internal Server Error">>)))
    /\ "output" \in DOMAIN response

\* C9: when the validator returns errors, the response is {error: <the
\* errors joined by newlines>} without refresh_worker; no template is read,
\* POST /prompt is not issued, no poll is made, no file is deleted, and the
\* validator is called once.
C9_ValidationError ==
    (calls.validate >= 1 /\ "errors" \in DOMAIN validate(event.input[1])) =>
        /\ pc = "done"
        /\ result = "dict"
        /\ DOMAIN response = {"error"}
        /\ response.error = JoinLines(validate(event.input[1]).errors)
        /\ calls.validate = 1
        /\ calls.template_read = 0 /\ calls.post = 0 /\ calls.get = 0
        /\ calls.file_read = 0 /\ calls.file_delete = 0
\* an input with two validation errors was answered
C9_Witness ==
    /\ pc = "done"
    /\ calls.validate = 1
    /\ "error" \in DOMAIN response
    /\ Contains(response.error, "\n")
    /\ Contains(response.error, "steps must be int")

\* a history reply was received by this step of the poll loop
PollReplied ==
    /\ pc = "poll"
    /\ calls'.get = calls.get + 1
    /\ ~(exc' # None /\ exc'[1].type = "ConnectionError")
BodyNonEmpty(b) == IF b.kind = "json" THEN DOMAIN b.v # {} ELSE b.raw # <<>>
PendingReply(h) == ~(h.status_code = 200 /\ BodyNonEmpty(h.body))

\* C10: the poll loop exits at the first attempt whose reply is HTTP 200 with
\* a non-empty body and never earlier: an attempt that returns an empty body
\* or a non-200 status, whatever its body, is treated as Pending and followed
\* by another attempt.
C10_PollUntilResolved ==
    [][PollReplied =>
         IF PendingReply(r'[1])
         THEN pc' = "poll" /\ retries' = retries + 1 /\ result' = "running"
         ELSE pc' # "poll"]_vars

\* POST /prompt answered 200
Submitted == queue_response # None /\ queue_response[1].status_code = 200

\* C11: after a 200 answer to POST /prompt a job ends only in success or in
\* an explicit failure (or polls on): an invocation that has ended after the
\* submission has returned a success object or an error object.
C11_EndsInSuccessOrFailure ==
    (pc = "done" /\ Submitted) =>
        /\ result = "dict"
        /\ IsSuccess(response) \/ IsError(response)

\* the poll loop was left on a resolved Success record
LeftOnSuccess ==
    /\ pc \notin {"entry", "guard", "validate", "build", "inject", "submit", "poll"}
    /\ Resolved
    /\ ResolvedSuccess
\* the filenames of the resolved record's descriptors of type 'output'
ResolvedOutputNames ==
    LET outs == json(r[1]).v[PROMPT_ID].outputs
    IN {outs[i].filename : i \in {j \in DOMAIN outs : outs[j].type = "output"}}

\* C12: when the history poll answers an empty result N times in a row and
\* then a resolved Success record, the handler has made exactly N + 1 history
\* requests and written exactly 1 + floor(N / 15) 'Getting status of prompt'
\* log lines (N is the value of retries, one sleep per empty answer), and the
\* success response is built from the outputs of that record.
C12_PollCounts ==
    LeftOnSuccess =>
        /\ calls.sleep = retries
        /\ calls.get = retries + 1
        /\ calls.status_log = 1 + (retries \div 15)
        /\ output_files \in {SubSeq(get_output_files(json(r[1]).v[PROMPT_ID].outputs), k,
                                    Len(json(r[1]).v[PROMPT_ID].outputs)) :
                                k \in 1..(Len(json(r[1]).v[PROMPT_ID].outputs) + 1)}
        /\ (pc = "done" /\ result = "dict" /\ IsSuccess(response)) =>
              \A i \in DOMAIN response.images :
                  \E n \in ResolvedOutputNames : response.images[i] = JpegBase64(n)
\* thirty empty answers, then Success: 31 requests, 3 log lines, one image
C12_Witness ==
    /\ pc = "done"
    /\ LeftOnSuccess
    /\ retries = 30
    /\ calls.get = 31
    /\ calls.status_log = 3
    /\ IsSuccess(response)
    /\ Len(response.images) = 1

\* nodes create_unique_filename_prefix treats as writing output files
OutputProducing(node) == node.class_type \in {"SaveImage"} \cup TEXT_OUTPUT_CLASSES
BothInjected == pc = "submit" /\ peer.pc = "submit"

\* C13: after create_unique_filename_prefix has run on the payloads of two
\* jobs in flight, no filename-bearing field (filename_prefix, file,
\* filename) of an output-producing node of one payload equals the same
\* field of an output-producing node of the other payload.
C13_FilenamesUnique ==
    BothInjected =>
        \A a \in Range(payload[1].nodes), b \in Range(peer.payload[1].nodes) :
            (OutputProducing(a) /\ OutputProducing(b)) =>
                \A f \in FILENAME_FIELDS \cap DOMAIN a.inputs[1] \cap DOMAIN b.inputs[1] :
                    a.inputs[1][f] # b.inputs[1][f]

\* C14: for two invocations in flight on one file system, no text file
\* written by the output nodes of the second is returned in the text_files
\* of the first or deleted by the scan of the first: once written, such a
\* file stays on disk and no entry of text_files carries its name.
C14_NoCrossHarvest ==
    peer.pc = "written" =>
        \A n \in TextOutputs(peer.payload[1]) :
            /\ Path("output", n) \in fs
            /\ \A i \in DOMAIN text_files : text_files[i].filename # n

\* C15: no artifact is delivered more than once within one invocation, also
\* when reading or deleting a file fails part-way: no two entries of
\* text_files name the same file and no two entries of images hold the same
\* image (file names are unique across the scanned directories here).
C15_DeliveredOnce ==
    /\ \A i, j \in DOMAIN text_files :
          i # j => text_files[i].filename # text_files[j].filename
    /\ \A i, j \in DOMAIN images : i # j => images[i] # images[j]

\* C16: when the handler returns a success response, no file reported in
\* images or text_files is still on disk at the path it was harvested from,
\* also when an attempt to delete it failed.
C16_ReportedFilesRemoved ==
    (pc = "done" /\ result = "dict" /\ IsSuccess(response)) =>
        \A f \in fs :
            /\ f.dir = "output" => \A i \in DOMAIN images : images[i] # JpegBase64(f.name)
            /\ \A i \in DOMAIN text_files : text_files[i].filename # f.name

\* C17: for the workflows txt2img and img2img, the payload sent to POST
\* /prompt has every node and slot of the workflow's mapping set to the value
\* of the job parameter (seed, steps, cfg, sampler_name, ckpt_name, width,
\* height, prompt, negative prompt; for img2img also scheduler, denoise,
\* target_width and target_height).
C17_TemplateSubstituted ==
    (queue_response # None /\ workflow_name \in {"txt2img", "img2img"}) =>
        \A t \in (IF workflow_name = "txt2img" THEN Txt2imgSlots ELSE Img2imgSlots) :
            payload[1].nodes[t[1]].inputs[1][t[2]] = event.input[1].payload[1][t[3]]

\* the slots in which two nodes differ (a slot present in one only included)
DifferingSlots(a, b) ==
    {x \in DOMAIN a.inputs[1] \cup DOMAIN b.inputs[1] :
        \/ x \notin DOMAIN a.inputs[1]
        \/ x \notin DOMAIN b.inputs[1]
        \/ a.inputs[1][x] # b.inputs[1][x]}

\* C18: for the workflow 'custom' the payload sent to POST /prompt equals the
\* caller's payload in every node and slot, except the filename fields that
\* create_unique_filename_prefix rewrites on output-producing nodes, and no
\* template is loaded (get_workflow_payload is not called).
C18_CustomUnchanged ==
    (queue_response # None /\ workflow_name = "custom") =>
        LET sent == payload[1]
            given == event.input[1].payload[1]
        IN /\ calls.template_read = 0
           /\ sent.order = given.order
           /\ DOMAIN sent.nodes = DOMAIN given.nodes
           /\ \A k \in DOMAIN given.nodes :
                /\ sent.nodes[k].class_type = given.nodes[k].class_type
                /\ DifferingSlots(sent.nodes[k], given.nodes[k]) \subseteq FILENAME_FIELDS
                /\ ~OutputProducing(given.nodes[k]) => sent.nodes[k] = given.nodes[k]
\* a custom payload was posted with its two filename fields rewritten and
\* its other slots as the caller wrote them
C18_Witness ==
    /\ queue_response # None
    /\ workflow_name = "custom"
    /\ payload[1].nodes["1"].inputs[1]["file"] = <<"uuid1", "_", "out", ".txt">>
    /\ payload[1].nodes["1"].inputs[1]["text"] = <<"hello">>
    /\ payload[1].nodes["2"].inputs[1]["filename_prefix"] = <<"uuid2">>
    /\ payload[1].nodes["3"].inputs[1]["seed"] = <<"7">>

\* the handler returned the response of a successful job
SuccessReturned == pc = "done" /\ result = "dict" /\ "error" \notin DOMAIN response

\* C19: every success response has the key 'images' (the list of harvested
\* images, empty when there is none) and has the key 'text_files' exactly
\* when at least one text file was harvested; no optional key is present
\* with an empty, false or null value.
C19_SuccessKeys ==
    SuccessReturned =>
        /\ "images" \in DOMAIN response
        /\ response.images = images
        /\ DOMAIN response \subseteq {"images", "text_files", "refresh_worker"}
        /\ "text_files" \in DOMAIN response <=> text_files # <<>>
        /\ "text_files" \in DOMAIN response => response.text_files = text_files
        /\ "refresh_worker" \in DOMAIN response => response.refresh_worker = TRUE
\* a job without images and with one text file succeeded
C19_Witness ==
    /\ SuccessReturned
    /\ response.images = <<>>
    /\ "text_files" \in DOMAIN response
    /\ Len(response.text_files) = 1
    /\ "refresh_worker" \notin DOMAIN response

\* the snapshot reports a known available memory below 1.0 GB
LowPostJobMemory(ma) == ma # None /\ ma[1] < MEM_REFRESH_GB

\* C20: the step that builds the response of a successful job always returns
\* a success response, and that response carries refresh_worker = true
\* exactly when the memory snapshot taken after the harvest reports a known
\* available memory below 1.0 GB; an unknown value or one of at least 1.0 GB
\* never sets it.
C20_RefreshOnLowMemory ==
    [][(pc = "scan" /\ scan_dirs = <<>>) =>
            /\ pc' = "done"
            /\ result' = "dict"
            /\ exc' = None
            /\ IsSuccess(response')
            /\ "refresh_worker" \in DOMAIN response' <=> LowPostJobMemory(memory_available_gb')
            /\ "refresh_worker" \in DOMAIN response' => response'.refresh_worker = TRUE]_vars
\* a job succeeded with exactly 1.0 GB available afterwards and no refresh
C20_Witness ==
    /\ SuccessReturned
    /\ memory_available_gb = Some(MEM_REFRESH_GB)
    /\ "refresh_worker" \notin DOMAIN response

\* C21: the prefix derived at harvest time matches the token injected into
\* the job's text-output nodes: once the scan has started, every text file
\* the service writes for the job's text-output nodes is one the scan
\* selects, whatever other nodes the payload holds and in whatever order.
C21_PrefixRoundTrip ==
    pc \in {"scan", "scan_files"} =>
        \A n \in TextOutputs(payload[1]) : Selected(n, unique_prefix)

\* C22: every output-class image file an invocation deletes from the output
\* directory has its encoded JPEG in the 'images' list of the response that
\* invocation returns, also when the conversion of the file fails or a later
\* step raises (the output directory holds the image OutName at the start of
\* every invocation here).
C22_DeletedImagesDelivered ==
    (pc = "done" /\ Path("output", OutName) \notin fs) =>
        /\ result = "dict"
        /\ IsSuccess(response)
        /\ \E i \in DOMAIN response.images : response.images[i] = JpegBase64(OutName)

\* the name starts with the derived prefix and ends with a text extension
MatchesPrefix(name) == StartsWith(name, unique_prefix[1]) /\ HasTextExtension(name)

\* C23: when a unique prefix was derived, scan_for_text_files reads, returns
\* and deletes only files of the three scanned directories whose name starts
\* with the prefix and ends, case-insensitively, with a text extension;
\* every other file stays on disk and is not returned.
C23_ScanTouchesOnlyPrefixed ==
    [][(pc \in {"scan", "scan_files"} /\ unique_prefix # None) =>
            /\ fs' \subseteq fs
            /\ \A f \in fs \ fs' : f.dir \in Range(SCAN_DIRS) /\ MatchesPrefix(f.name)
            /\ \A i \in (Len(text_files) + 1)..Len(text_files') :
                  MatchesPrefix(text_files'[i].filename)
            /\ SubSeq(text_files', 1, Len(text_files)) = text_files
            /\ (calls'.file_read # calls.file_read \/ calls'.file_delete # calls.file_delete) =>
                  \E n \in listing \ listing' : MatchesPrefix(n)]_vars
\* with prefix uuid1 the job's upper-case text file in /tmp was returned and
\* deleted, and the other job's text file stayed in the output directory
C23_Witness ==
    /\ pc = "done"
    /\ unique_prefix = Some(<<"uuid1">>)
    /\ Path("output", ForeignTextName) \in fs
    /\ Path("tmp", UpperTextName) \notin fs
    /\ Len(text_files) = 1
    /\ text_files[1].filename = UpperTextName

\* the convention create_unique_filename_prefix is to apply to a node: None
\* when it is to leave the node alone
Convention(node) ==
    IF node.class_type = "SaveImage" THEN Some("filename_prefix")
    ELSE IF node.class_type \notin TEXT_OUTPUT_CLASSES THEN None
    ELSE IF "filename_prefix" \in DOMAIN node.inputs[1] THEN Some("filename_prefix")
    ELSE IF "file" \in DOMAIN node.inputs[1] THEN Some("file")
    ELSE IF "filename" \in DOMAIN node.inputs[1] THEN Some("filename")
    ELSE None
Tokens == {Uuid(j) : j \in 1..uuid_n}
\* the token at the head of the rewritten field of an injected node
TokenOf(node) == node.inputs[1][Convention(node)[1]][1]

\* C24: create_unique_filename_prefix sets filename_prefix of every
\* SaveImage node to a fresh token and applies to every text-output node
\* exactly one convention, the first present among filename_prefix (replaced
\* by a token), file and filename (rewritten to token, '_', original); every
\* other slot of those nodes and every other node is unchanged, and no token
\* is used twice, in this payload or in the payload of the other job.
C24_InjectionConventions ==
    pc = "submit" =>
        LET sent == payload[1]
            given == event.input[1].payload[1]
        IN /\ sent.order = given.order
           /\ DOMAIN sent.nodes = DOMAIN given.nodes
           /\ \A k \in DOMAIN given.nodes :
                LET a == given.nodes[k]
                    b == sent.nodes[k]
                    c == Convention(a)
                IN /\ b.class_type = a.class_type
                   /\ IF c = None THEN b = a
                      ELSE /\ DifferingSlots(a, b) = {c[1]}
                           /\ TokenOf(b) \in Tokens
                           /\ IF c[1] = "filename_prefix"
                              THEN b.inputs[1][c[1]] = <<TokenOf(b)>>
                              ELSE b.inputs[1][c[1]] = <<TokenOf(b), "_">> \o a.inputs[1][c[1]]
           /\ \A k1, k2 \in DOMAIN sent.nodes :
                (k1 # k2 /\ Convention(sent.nodes[k1]) # None /\ Convention(sent.nodes[k2]) # None)
                   => TokenOf(sent.nodes[k1]) # TokenOf(sent.nodes[k2])
           /\ peer.pc = "submit" =>
                \A k1 \in DOMAIN sent.nodes, k2 \in DOMAIN peer.payload[1].nodes :
                    (Convention(sent.nodes[k1]) # None
                     /\ Convention(peer.payload[1].nodes[k2]) # None)
                       => TokenOf(sent.nodes[k1]) # TokenOf(peer.payload[1].nodes[k2])
\* a text-output node carrying all three fields had filename_prefix replaced
\* and file and filename left as they were
C24_Witness ==
    /\ pc = "submit"
    /\ peer.pc = "submit"
    /\ payload[1].nodes["1"].class_type = "WriteTextFile"
    /\ payload[1].nodes["1"].inputs[1] =
          [filename_prefix |-> <<"uuid1">>, file |-> <<"out", ".txt">>,
           filename |-> <<"log", ".txt">>]

\* C25: in scan_for_text_files a failure on one file (read, decode or
\* delete) is followed by the remaining files of the directory and by the
\* remaining directories, a directory that cannot be listed is followed by
\* the remaining directories, and the function returns normally: every step
\* of the scan visits exactly one file or one directory and goes on, and
\* after the last directory the handler returns a success response.
C25_ScanIsolatesFailures ==
    [][/\ pc = "scan_files" =>
            /\ exc' = None /\ result' = "running"
            /\ \E name \in listing : listing' = listing \ {name}
            /\ IF listing' = {}
               THEN pc' = "scan" /\ scan_dirs' = Tail(scan_dirs)
               ELSE pc' = "scan_files" /\ scan_dirs' = scan_dirs
       /\ (pc = "scan" /\ scan_dirs # <<>>) =>
            /\ exc' = None /\ result' = "running"
            /\ \/ /\ pc' = "scan_files"
                  /\ scan_dirs' = scan_dirs
                  /\ listing' = {f.name : f \in {g \in fs : g.dir = Head(scan_dirs)}}
               \/ pc' = "scan" /\ scan_dirs' = Tail(scan_dirs)
       /\ (pc = "scan" /\ scan_dirs = <<>>) =>
            /\ pc' = "done" /\ exc' = None /\ result' = "dict"
            /\ IsSuccess(response')
            /\ text_files' = text_files]_vars
\* the text file could be read in neither mode and stayed on disk; the other
\* file of the directory was returned and deleted, and the job succeeded
C25_Witness ==
    /\ SuccessReturned
    /\ Path("output", TextName) \in fs
    /\ Path("output", JsonTextName) \notin fs
    /\ calls.file_read >= 3
    /\ Len(text_files) = 1
    /\ text_files[1].filename = JsonTextName

\* C26: for an image descriptor of type 'temp' the handler adds nothing to
\* images and reads no file; it attempts to delete the file from the service
\* temp directory if it is there, else from /tmp if it is there, and touches
\* no other file; whether or not the deletion succeeds, the loop goes on to
\* the next descriptor and the job is not failed.
C26_TempImagesDiscarded ==
    [][(pc = "images" /\ output_files # <<>> /\ Head(output_files).data.type = "temp") =>
            LET name == Head(output_files).data.filename
                t == Path("temp", name)
                u == Path("tmp", name)
            IN /\ images' = images
               /\ pc' = "images" /\ exc' = None /\ result' = "running"
               /\ output_files' = Tail(output_files)
               /\ fs' \subseteq fs
               /\ fs \ fs' \subseteq {IF t \in fs THEN t ELSE u}
               /\ calls'.file_read = calls.file_read
               /\ calls'.file_delete =
                     calls.file_delete + (IF t \in fs \/ u \in fs THEN 1 ELSE 0)]_vars
\* a temp image found only in /tmp was deleted and the job succeeded without
\* images
C26_Witness ==
    /\ SuccessReturned
    /\ Resolved
    /\ json(r[1]).v[PROMPT_ID].outputs = <<Descriptor(TempName, "temp")>>
    /\ Path("tmp", TempName) \notin fs
    /\ Path("output", OutName) \in fs
    /\ calls.file_delete >= 1
    /\ response.images = <<>>

\* C27: a failure to obtain one resource figure degrades only that figure to
\* unknown: an unknown figure never makes the guard reject, and the figures
\* obtained before the failure (the host-wide figures of /proc/meminfo, the
\* byte counts of the disk usage) remain in the snapshot given to the guard.
C27_FailureDegradesOneFigure ==
    snapshot.pc = "done" =>
        /\ (Get(snapshot.memory_info, "available") = None
            /\ Get(snapshot.disk_info, "free_bytes") = None) => snapshot.verdict = "pass"
        /\ DOMAIN HostMemory(snapshot.mem.meminfo) \subseteq DOMAIN snapshot.memory_info
        /\ snapshot.disk.usage # None => "free_bytes" \in DOMAIN snapshot.disk_info

\* the usage figures of the container accounting files that could be read
ContainerUsages ==
    {u.v : u \in {f \in {snapshot.mem.v2cur, snapshot.mem.v1usage, snapshot.mem.v1busage} :
                    f.st = "ok"}}

\* C28: the available-memory figure given to the guard is the container
\* limit minus the container usage when the accounting files provide both,
\* and the host-wide MemAvailable otherwise; it is never computed from a
\* container limit and a host-wide usage figure.
C28_AvailableIsScoped ==
    (snapshot.pc = "done" /\ "available" \in DOMAIN snapshot.memory_info) =>
        LET mi == snapshot.memory_info
            host == HostMemory(snapshot.mem.meminfo)
        IN \/ /\ "limit" \in DOMAIN mi
              /\ \E u \in ContainerUsages : mi["available"] = mi["limit"] - BytesToGb(u)
           \/ /\ ~("limit" \in DOMAIN mi /\ ContainerUsages # {})
              /\ "available" \in DOMAIN host
              /\ mi["available"] = host["available"]

\* the position of a step in the order guard, validation, payload build,
\* prefix injection, POST /prompt, history polls, harvest, response
StepRank(p) ==
    CASE p = "entry" -> 0
      [] p = "guard" -> 1
      [] p = "validate" -> 2
      [] p = "build" -> 3
      [] p = "inject" -> 4
      [] p = "submit" -> 5
      [] p = "poll" -> 6
      [] p = "status" -> 7
      [] p \in {"images", "scan", "scan_files"} -> 8
      [] p = "done" -> 9
\* every node that follows a filename convention carries a token
PrefixInjected ==
    /\ payload # None
    /\ \A k \in DOMAIN payload[1].nodes :
         Convention(payload[1].nodes[k]) # None => TokenOf(payload[1].nodes[k]) \in Tokens

\* C29: within one invocation the steps occur in the fixed order guard,
\* validation, payload build, prefix injection, POST /prompt, history polls,
\* harvest, post-job memory check, response: POST /prompt is issued at most
\* once and only on the injected payload, no history poll precedes a 200
\* response to it, no POST is issued while polling, and the success response
\* is returned by the step that measures the post-job memory after the harvest.
C29_StepOrder ==
    [][/\ StepRank(pc') >= StepRank(pc)
       /\ calls'.post <= 1
       /\ calls'.post # calls.post => (pc = "submit" /\ PrefixInjected)
       /\ calls'.get # calls.get =>
            /\ pc = "poll"
            /\ calls.post = 1
            /\ calls'.post = calls.post
            /\ queue_response # None
            /\ queue_response[1].status_code = 200
       /\ (pc' = "done" /\ pc # "done" /\ "images" \in DOMAIN response') =>
            /\ pc = "scan"
            /\ scan_dirs = <<>>
            /\ output_files = <<>>
            /\ calls.get >= 1]_vars
\* a success response after an injection, one POST and at least two polls
C29_Witness ==
    /\ pc = "done"
    /\ "images" \in DOMAIN response
    /\ uuid_n >= 1
    /\ calls.post = 1
    /\ calls.get >= 2
    /\ calls.file_read >= 1

\* a history reply carrying status_str = 'success' and completed = true for
\* the prompt has been received
ObservedSuccess ==
    /\ r # None
    /\ json(r[1]).ok
    /\ PROMPT_ID \in DOMAIN json(r[1]).v
    /\ json(r[1]).v[PROMPT_ID].status.status_str = "success"
    /\ json(r[1]).v[PROMPT_ID].status.completed

\* C30: harvesting is gated on a Success poll result: as long as the
\* invocation has not observed status_str = 'success' with completed = true,
\* and so on every error path without it (guard rejection, validation error,
\* template load error, submission failure, Failed poll result), it has
\* listed, read and deleted no file of the output directory, the temp
\* directory or /tmp.
C30_HarvestGatedOnSuccess ==
    ~ObservedSuccess =>
        /\ calls.file_read = 0
        /\ calls.file_delete = 0
        /\ listing = {}
        /\ scan_dirs = <<>>
        /\ images = <<>>
        /\ text_files = <<>>
        /\ output_files = <<>>
\* a Failed poll result ended the invocation with an error while the files
\* of an earlier job lay in the output directory and in /tmp, untouched
C30_Witness ==
    /\ pc = "done"
    /\ exc # None
    /\ exc[1].at = "status"
    /\ exc[1].type = "RuntimeError"
    /\ ~ObservedSuccess
    /\ calls.get >= 1
    /\ calls.file_read = 0
    /\ calls.file_delete = 0
    /\ \E f \in fs : f.dir = "output"
    /\ \E f \in fs : f.dir = "tmp"

\* C31: every log record emitted while an invocation processes job J is
\* tagged by SnapLogHandler.emit with job id J, also when two invocations
\* overlap in time: the RUNPOD_JOB_ID value read at emit time is the id the
\* emitting invocation passed with the record.
C31_RecordsTaggedWithOwnJob ==
    \A i \in DOMAIN records : records[i].runpod_job_id = Some(records[i].args[1])

====
